---- MODULE Spec2Model ----
(***************************************************************************)
(* A model of the cross-boundary bridge of libs/scrap/src/android/ffi.rs   *)
(* and src/android_ffi.rs: the raw frame slots (VIDEO_RAW, AUDIO_RAW), the *)
(* two clipboard mailboxes (CLIPBOARDS_HOST, CLIPBOARDS_CLIENT), the       *)
(* global event channels (GLOBAL_EVENT_CALLBACKS), the session map         *)
(* (SESSIONS) and the event sinks of the sessions of crate::flutter.       *)
(*                                                                         *)
(* A RwLock is modelled by its guards: a writer acts in one step that is   *)
(* enabled when no reader is between taking and dropping its read guard.   *)
(*                                                                         *)
(* Each slot is a Mutex<FrameRaw>.  A handler is split at the points where *)
(* another thread could observe or change the slot if the mutex did not    *)
(* serialise them: the stores of update, and the copy of take.  The        *)
(* variables whose names start with h_ are history variables: they record  *)
(* the calls made (arguments, order, time) and what a caller or a sink     *)
(* observed of them.                                                       *)
(***************************************************************************)
EXTENDS Integers, Sequences, FiniteSets, TLC

VARIABLES
    \* FrameRaw fields, one record per kind (VIDEO_RAW, AUDIO_RAW)
    enable, ptr, len,
    elapsed,      \* last_update.elapsed(): monotonic time since last_update
    lock,         \* owner of the Mutex around the FrameRaw
    \* the producer thread of each kind (Java_ffi_FFI_on*FrameUpdate)
    pcU, uData,
    \* the consumer thread of each kind (get_video_raw / get_audio_raw)
    pcT, slice, dst,
    \* history of the calls on each kind
    h_on,         \* value of the most recent setFrameRawEnable call
    h_data,       \* data of the most recent completed update since then
    h_hist,       \* what followed that update: "none" | "upd" | "seen" | "dup" | "took"
    h_age,        \* time since the most recent update read the clock
    h_stale,      \* the running take started later than timeout after it
    h_eq,         \* the running take's previous_buffer equals that update's bytes
    h_dst0,       \* dst as the running take received it
    \* clipboard mailboxes
    CLIPBOARDS_HOST, CLIPBOARDS_CLIENT,   \* <<>> is None, <<c>> is Some(c)
    ret_clip,     \* what the most recent get_clipboards(client) returned
    panicked,     \* a handler panicked at the call boundary
    h_pub,        \* payloads stored so far: sequence of [client, clips]
    h_pend,       \* per direction: the last publish since the last take, or 0
    h_exp,        \* per direction: h_pend as the most recent take found it
    h_got,        \* payloads returned by takes so far: [client, id, clips]
    h_op,         \* the most recent mailbox call: [op, client]
    h_upd,        \* the onClipboardUpdate call made last, if no take followed
    \* the JNI environment: statics of ffi.rs and the Java callback objects
    JVM, MAIN_SERVICE_CTX, NDK_CONTEXT_INITED,
    ndk_context,  \* the android context held by the ndk_context crate
    CLIPBOARD_MANAGER,
    ndk_lock,     \* owner of the Mutex around NDK_CONTEXT_INITED
    loaded,       \* JNI_OnLoad has been called
    pcI, iCtx,    \* the threads running Java_ffi_FFI_init / JNI_OnLoad
    h_jvm,        \* the handles the first and the latest call obtained
    h_ctx,        \* the context of the init call that stored one last
    h_inits,      \* number of init_ndk_context calls completed
    onEvent,      \* per Java callback object: the events its onEvent received
    \* global event channels (android_ffi.rs)
    GLOBAL_EVENT_CALLBACKS,
    pcP, pName, pCb, pRet,   \* the threads running push_global_event
    h_reg,        \* the most recent register / unregister call
    h_second,     \* per plain name: the sink that last replaced another one
    h_failed,     \* the channel whose most recent push returned Some(false)
    ret_channels, \* what the most recent get_global_event_channels returned
    pCm,          \* per pusher: the connection-manager call and its event object
    main_service, \* the names MainService.rustSetByName was called with
    \* the session map of ffi.rs
    SESSIONS,
    ret_query,    \* what the most recent query call returned
    h_call,       \* the most recent sessionAdd / query call
    h_life,       \* per id: "never" | "added" | "closed" (sessionAdd, sessionClose)
    \* the sessions of crate::flutter and their event sinks
    sessions,     \* id -> session object (0: absent)
    arc_count,    \* session objects created so far
    session_handlers,          \* per session object: its handler
    connection_round_state,    \* per session object: the round counter
    spawned,      \* io threads spawned and not yet started
    io_loops,     \* io loops started, in order: [arc, round, live]
    closing,      \* the thread running Java_ffi_FFI_sessionClose
    starting,     \* the thread running start_session
    pcS, sId, sArc, sCb, sRet, \* the threads running send_event_to_ui
    h_ev,         \* the most recent sink-changing call on a session
    h_superseded, \* per session: sinks replaced by another sink and not reinstalled
    h_closed,     \* per id: sessionClose returned and the id was not added again
    h_after,      \* per sender: the running send started while h_closed
    \* control and query calls on the sessions, and their io loops
    inputs,       \* per session object: the control calls it received
    h_ctl,        \* the most recent control / query call
    h_act         \* the most recent action of an io loop

frameVars == <<enable, ptr, len, elapsed, lock, pcU, uData, pcT, slice, dst,
               h_on, h_data, h_hist, h_age, h_stale, h_eq, h_dst0>>
clipVars == <<CLIPBOARDS_HOST, CLIPBOARDS_CLIENT, ret_clip, panicked,
              h_pub, h_pend, h_exp, h_got, h_op, h_upd>>
jvmVars == <<JVM, MAIN_SERVICE_CTX, NDK_CONTEXT_INITED, ndk_context,
             CLIPBOARD_MANAGER, ndk_lock, loaded, pcI, iCtx, h_jvm, h_ctx, h_inits>>
jniVars == <<jvmVars, onEvent>>
chanVars == <<GLOBAL_EVENT_CALLBACKS, pcP, pName, pCb, pRet, h_reg, h_second,
              h_failed, ret_channels, pCm, main_service>>
regVars == <<SESSIONS, ret_query, h_call, h_life>>
sessVars == <<sessions, arc_count, session_handlers, connection_round_state,
              spawned, io_loops, closing, starting, pcS, sId, sArc, sCb, sRet,
              h_ev, h_superseded, h_closed, h_after, inputs, h_ctl, h_act>>
ctlVars == <<inputs, h_ctl, h_act>>
eventVars == <<jniVars, chanVars, regVars, sessVars>>
vars == <<frameVars, clipVars, eventVars>>

----------------------------------------------------------------------------
(* Frame slots *)

Kinds == {"video", "audio"}

MAX_VIDEO_FRAME_TIMEOUT == 100
MAX_AUDIO_FRAME_TIMEOUT == 1000

\* FrameRaw::new(name, timeout) as called for VIDEO_RAW and AUDIO_RAW
timeout(k) == IF k = "video" THEN MAX_VIDEO_FRAME_TIMEOUT ELSE MAX_AUDIO_FRAME_TIMEOUT

\* The clock advances in steps of TickMs milliseconds.
TickMs == 500

\* std::ptr::null_mut()
NullPtr == 0

\* Direct ByteBuffers of the Java side, by address.  The caller keeps a
\* buffer valid and unchanged while the slot points to it.
Buffers == {1, 2, 3}
BufBytes(a) ==
    CASE a = 1 -> <<1, 2, 3>>
      [] a = 2 -> <<4, 5>>
      [] OTHER -> <<>>

\* env.get_direct_buffer_capacity(&jb)
Capacity(a) == Len(BufBytes(a))

\* What a read past the end of a buffer may find.
Garbage == {0, 9}

\* previous_buffer values a consumer passes
LastBufs == {<<>>, <<1, 2, 3>>, <<4, 5>>, <<4, 6>>}

\* Faulty variant: the slice is built after release() has zeroed self.len.
from_raw_parts_after_release(p, l) == {<<>>}

\* std::slice::from_raw_parts(ptr, self.len): the bytes the slice shows.  A
\* length beyond the buffer is an out-of-bounds read: any bytes may follow.
from_raw_parts(p, l) ==
    IF l <= Capacity(p)
    THEN {SubSeq(BufBytes(p), 1, l)}
    ELSE {BufBytes(p) \o pad : pad \in [1..(l - Capacity(p)) -> Garbage]}

\* crate::would_block_if_equal(last, slice).is_err()
would_block_if_equal(last, bytes) == last = bytes

\* Faulty variant: the slot is entered without waiting for the mutex.
LockFree_always(k) == TRUE

\* VIDEO_RAW.lock() / AUDIO_RAW.lock(): the mutex can be acquired
LockFree(k) == lock[k] = "free"

\* Faulty variant: take never checks the age of the frame.
IsTimeout_never(k) == FALSE

\* self.last_update.elapsed() > self.timeout
IsTimeout(k) == elapsed[k] > timeout(k)

\* Faulty variant: release leaves the slot as it is.
release_keep(k) == <<ptr[k], len[k]>>

\* FrameRaw::release: the (ptr, len) pair it leaves
release(k) == <<NullPtr, 0>>

\* Faulty variant: set_enable only flips the flag.
set_enable_keep(k, value) == <<value, ptr[k], len[k]>>

\* FrameRaw::set_enable: the (enable, ptr, len) it leaves
set_enable(k, value) == <<value, NullPtr, 0>>

\* Faulty variant: update does not look at the flag.
UpdateProceeds_always(k) == TRUE

\* the enable check at the head of FrameRaw::update
UpdateProceeds(k) == enable[k]

RetNone == {"ret_disabled", "ret_empty", "ret_timeout", "ret_equal"}
Ret == RetNone \cup {"ret_some"}

FrameInit ==
    /\ enable = [k \in Kinds |-> FALSE]
    /\ ptr = [k \in Kinds |-> NullPtr]
    /\ len = [k \in Kinds |-> 0]
    /\ elapsed = [k \in Kinds |-> 0]
    /\ lock = [k \in Kinds |-> "free"]
    /\ pcU = [k \in Kinds |-> "idle"]
    /\ uData = [k \in Kinds |-> NullPtr]
    /\ pcT = [k \in Kinds |-> "idle"]
    /\ slice = [k \in Kinds |-> <<>>]
    /\ dst = [k \in Kinds |-> <<>>]
    /\ h_on = [k \in Kinds |-> FALSE]
    /\ h_data = [k \in Kinds |-> NullPtr]
    /\ h_hist = [k \in Kinds |-> "none"]
    /\ h_age = [k \in Kinds |-> 0]
    /\ h_stale = [k \in Kinds |-> FALSE]
    /\ h_eq = [k \in Kinds |-> FALSE]
    /\ h_dst0 = [k \in Kinds |-> <<>>]

\* Java_ffi_FFI_setFrameRawEnable(name, value) with name "video" or "audio":
\* lock, set_enable, unlock in one statement.
setFrameRawEnable(k, value) ==
    /\ LockFree(k)
    /\ enable' = [enable EXCEPT ![k] = set_enable(k, value)[1]]
    /\ ptr' = [ptr EXCEPT ![k] = set_enable(k, value)[2]]
    /\ len' = [len EXCEPT ![k] = set_enable(k, value)[3]]
    /\ h_on' = [h_on EXCEPT ![k] = value]
    /\ h_data' = [h_data EXCEPT ![k] = NullPtr]
    /\ h_hist' = [h_hist EXCEPT ![k] = "none"]
    /\ UNCHANGED <<elapsed, lock, pcU, uData, pcT, slice, dst,
                   h_age, h_stale, h_eq, h_dst0>>
    /\ UNCHANGED <<clipVars, eventVars>>

\* Java_ffi_FFI_on{Video,Audio}FrameUpdate with a direct buffer (otherwise
\* the handler does nothing): lock the slot and enter FrameRaw::update(data,
\* len), len being the capacity of the buffer: the enable check and
\* `self.len = len`.
UpdateEnter(k, data) ==
    /\ pcU[k] = "idle"
    /\ LockFree(k)
    /\ lock' = [lock EXCEPT ![k] = "producer"]
    /\ uData' = [uData EXCEPT ![k] = data]
    /\ IF UpdateProceeds(k)
       THEN /\ len' = [len EXCEPT ![k] = Capacity(data)]
            /\ pcU' = [pcU EXCEPT ![k] = "store_ptr"]
       ELSE /\ len' = len
            /\ pcU' = [pcU EXCEPT ![k] = "ret"]
    /\ UNCHANGED <<enable, ptr, elapsed, pcT, slice, dst,
                   h_on, h_data, h_hist, h_age, h_stale, h_eq, h_dst0>>
    /\ UNCHANGED <<clipVars, eventVars>>

\* self.ptr.store(data, SeqCst)
UpdateStorePtr(k) ==
    /\ pcU[k] = "store_ptr"
    /\ ptr' = [ptr EXCEPT ![k] = uData[k]]
    /\ pcU' = [pcU EXCEPT ![k] = "stamp"]
    /\ UNCHANGED <<enable, len, elapsed, lock, uData, pcT, slice, dst,
                   h_on, h_data, h_hist, h_age, h_stale, h_eq, h_dst0>>
    /\ UNCHANGED <<clipVars, eventVars>>

\* self.last_update = Instant::now()
UpdateStamp(k) ==
    /\ pcU[k] = "stamp"
    /\ elapsed' = [elapsed EXCEPT ![k] = 0]
    /\ h_age' = [h_age EXCEPT ![k] = 0]
    /\ pcU' = [pcU EXCEPT ![k] = "ret"]
    /\ UNCHANGED <<enable, ptr, len, lock, uData, pcT, slice, dst,
                   h_on, h_data, h_hist, h_stale, h_eq, h_dst0>>
    /\ UNCHANGED <<clipVars, eventVars>>

\* update returns and the MutexGuard is dropped.  The update counts as
\* completed for the history if the kind was last set enabled.
UpdateReturn(k) ==
    /\ pcU[k] = "ret"
    /\ lock' = [lock EXCEPT ![k] = "free"]
    /\ pcU' = [pcU EXCEPT ![k] = "idle"]
    /\ uData' = [uData EXCEPT ![k] = NullPtr]
    /\ IF h_on[k]
       THEN /\ h_data' = [h_data EXCEPT ![k] = uData[k]]
            /\ h_hist' = [h_hist EXCEPT ![k] = "upd"]
       ELSE UNCHANGED <<h_data, h_hist>>
    /\ UNCHANGED <<enable, ptr, len, elapsed, pcT, slice, dst,
                   h_on, h_age, h_stale, h_eq, h_dst0>>
    /\ UNCHANGED <<clipVars, eventVars>>

\* get_video_raw / get_audio_raw: lock the slot and run FrameRaw::take up to
\* the comparison with `last`; the copy into dst is TakeCopy.
TakeEnter(k, last) ==
    /\ pcT[k] = "idle"
    /\ LockFree(k)
    /\ lock' = [lock EXCEPT ![k] = "consumer"]
    /\ h_stale' = [h_stale EXCEPT ![k] = h_age[k] > timeout(k)]
    /\ h_eq' = [h_eq EXCEPT ![k] = h_data[k] # NullPtr /\ last = BufBytes(h_data[k])]
    /\ h_dst0' = [h_dst0 EXCEPT ![k] = dst[k]]
    /\ IF ~enable[k]
       THEN /\ pcT' = [pcT EXCEPT ![k] = "ret_disabled"]
            /\ UNCHANGED <<ptr, len, slice>>
       ELSE IF ptr[k] = NullPtr \/ len[k] = 0
       THEN /\ pcT' = [pcT EXCEPT ![k] = "ret_empty"]
            /\ UNCHANGED <<ptr, len, slice>>
       ELSE IF IsTimeout(k)
       THEN /\ pcT' = [pcT EXCEPT ![k] = "ret_timeout"]
            /\ UNCHANGED <<ptr, len, slice>>
       ELSE \E bytes \in from_raw_parts(ptr[k], len[k]) :
            /\ ptr' = [ptr EXCEPT ![k] = release(k)[1]]
            /\ len' = [len EXCEPT ![k] = release(k)[2]]
            /\ IF Len(last) = Len(bytes) /\ would_block_if_equal(last, bytes)
               THEN /\ pcT' = [pcT EXCEPT ![k] = "ret_equal"]
                    /\ slice' = slice
               ELSE /\ pcT' = [pcT EXCEPT ![k] = "copy"]
                    /\ slice' = [slice EXCEPT ![k] = bytes]
    /\ UNCHANGED <<enable, elapsed, pcU, uData, dst, h_on, h_data, h_hist, h_age>>
    /\ UNCHANGED <<clipVars, eventVars>>

\* dst.resize(slice.len(), 0); copy_nonoverlapping(slice, dst); Some(())
TakeCopy(k) ==
    /\ pcT[k] = "copy"
    /\ dst' = [dst EXCEPT ![k] = slice[k]]
    /\ slice' = [slice EXCEPT ![k] = <<>>]
    /\ pcT' = [pcT EXCEPT ![k] = "ret_some"]
    /\ UNCHANGED <<enable, ptr, len, elapsed, lock, pcU, uData,
                   h_on, h_data, h_hist, h_age, h_stale, h_eq, h_dst0>>
    /\ UNCHANGED <<clipVars, eventVars>>

\* take returns to the caller and the MutexGuard is dropped.
TakeReturn(k) ==
    /\ pcT[k] \in Ret
    /\ lock' = [lock EXCEPT ![k] = "free"]
    /\ pcT' = [pcT EXCEPT ![k] = "idle"]
    /\ h_hist' = [h_hist EXCEPT ![k] =
          IF pcT[k] = "ret_some" THEN "took"
          ELSE IF pcT[k] = "ret_equal" THEN "dup"
          ELSE IF h_hist[k] = "upd" THEN "seen" ELSE h_hist[k]]
    /\ h_stale' = [h_stale EXCEPT ![k] = FALSE]
    /\ h_eq' = [h_eq EXCEPT ![k] = FALSE]
    /\ h_dst0' = [h_dst0 EXCEPT ![k] = <<>>]
    /\ UNCHANGED <<enable, ptr, len, elapsed, pcU, uData, slice, dst,
                   h_on, h_data, h_age>>
    /\ UNCHANGED <<clipVars, eventVars>>

\* The names a caller passes to Java_ffi_FFI_setFrameRawEnable.
FrameNames == {"video", "audio", "screen"}

\* No slot: the name matches neither branch.
NoRaw == "NoRaw"

\* Faulty variant: every name falls into the first branch.
raw_of_video(name) == "video"

\* name.eq("video") -> VIDEO_RAW, name.eq("audio") -> AUDIO_RAW, else nothing
raw_of(name) ==
    IF name = "video" THEN "video"
    ELSE IF name = "audio" THEN "audio"
    ELSE NoRaw

\* Java_ffi_FFI_setFrameRawEnable(name, value) for any name: the handler
\* does nothing for a name that is neither "video" nor "audio".
Java_ffi_FFI_setFrameRawEnable(name, value) ==
    IF raw_of(name) \in Kinds
    THEN setFrameRawEnable(raw_of(name), value)
    ELSE UNCHANGED vars

\* Time passes.  A clock that is already past its timeout stays there: the
\* code only compares it with the timeout.
Advance(c, k) == IF c[k] > timeout(k) THEN c[k] ELSE c[k] + TickMs

Tick ==
    /\ elapsed' = [k \in Kinds |-> Advance(elapsed, k)]
    /\ h_age' = [k \in Kinds |-> Advance(h_age, k)]
    /\ UNCHANGED <<enable, ptr, len, lock, pcU, uData, pcT, slice, dst,
                   h_on, h_data, h_hist, h_stale, h_eq, h_dst0>>
    /\ UNCHANGED <<clipVars, eventVars>>

----------------------------------------------------------------------------
(* Clipboard mailboxes *)

\* At most MaxPublish payloads are stored in one run.
MaxPublish == 3

\* Contents of the direct buffer handed to onClipboardUpdate: a direction
\* byte, then a serialized MultiClipboards.
ClipBufs == { <<>>, <<1>>, <<0, 10, 1, 7>>, <<1, 10, 1, 7>>, <<2, 10, 1, 8>>,
              <<0, 10, 2, 7>>, <<1, 11>> }

\* MultiClipboards::parse_from_bytes: `repeated Clipboard clipboards = 1` on
\* the wire is a run of records <<10, n, c1 .. cn>> (tag of field 1, length,
\* content).  A truncated record or another leading byte is an error.  The
\* result is [ok, clips]: clips is the sequence of the records' contents.
RECURSIVE parse_from_bytes(_)
parse_from_bytes(b) ==
    IF b = <<>> THEN [ok |-> TRUE, clips |-> <<>>]
    ELSE IF b[1] # 10 \/ Len(b) < 2 \/ Len(b) < 2 + b[2]
    THEN [ok |-> FALSE, clips |-> <<>>]
    ELSE LET rest == parse_from_bytes(SubSeq(b, 3 + b[2], Len(b)))
         IN  [ok |-> rest.ok,
              clips |-> <<SubSeq(b, 3, 2 + b[2])>> \o rest.clips]

\* Faulty variant: the direction byte is read the other way round.
is_client_zero(data) == data[1] = 0

\* let is_client = data[0] == 1
is_client(data) == data[1] = 1

\* Faulty variant: every payload goes to the client mailbox.
update_mailbox_client(data) == "CLIPBOARDS_CLIENT"

\* the mailbox onClipboardUpdate stores into
update_mailbox(data) == IF is_client(data) THEN "CLIPBOARDS_CLIENT" ELSE "CLIPBOARDS_HOST"

\* Faulty variant: both branches lock the host mailbox.
get_mailbox_host(client) == "CLIPBOARDS_HOST"

\* the mailbox get_clipboards(client) locks
get_mailbox(client) == IF client THEN "CLIPBOARDS_CLIENT" ELSE "CLIPBOARDS_HOST"

\* Faulty variant: the payload is cloned and stays in the mailbox.
take_clone(slot) == <<slot, slot>>

\* Option::take on the locked mailbox: <<what is returned, what is left>>
take(slot) == <<slot, <<>>>>

\* A stored payload carries the number of the publish that created it: the
\* MultiClipboards value is moved into the mailbox and moved out by take, and
\* the number stands for the identity of that value.
Payload(clips, id) == [clips |-> clips, id |-> id]

\* No onClipboardUpdate call to speak of
NoUpd == [called |-> FALSE, data |-> <<>>, host |-> <<>>, client |-> <<>>]

ClipInit ==
    /\ CLIPBOARDS_HOST = <<>>
    /\ CLIPBOARDS_CLIENT = <<>>
    /\ ret_clip = [c \in BOOLEAN |-> <<>>]
    /\ panicked = FALSE
    /\ h_pub = <<>>
    /\ h_pend = [c \in BOOLEAN |-> 0]
    /\ h_exp = [c \in BOOLEAN |-> 0]
    /\ h_got = <<>>
    /\ h_op = [op |-> "none", client |-> FALSE]
    /\ h_upd = NoUpd

\* Java_ffi_FFI_onClipboardUpdate(buffer)
onClipboardUpdate(data) ==
    /\ ~panicked
    /\ Len(h_pub) < MaxPublish
    /\ IF Len(data) = 0
       THEN \* &data[1..] of an empty slice panics
            /\ panicked' = TRUE
            /\ UNCHANGED <<CLIPBOARDS_HOST, CLIPBOARDS_CLIENT, h_pub, h_pend, h_op>>
       ELSE LET r == parse_from_bytes(Tail(data))
                id == Len(h_pub) + 1
            IN  IF r.ok
                THEN /\ IF update_mailbox(data) = "CLIPBOARDS_CLIENT"
                        THEN /\ CLIPBOARDS_CLIENT' = <<Payload(r.clips, id)>>
                             /\ UNCHANGED CLIPBOARDS_HOST
                        ELSE /\ CLIPBOARDS_HOST' = <<Payload(r.clips, id)>>
                             /\ UNCHANGED CLIPBOARDS_CLIENT
                     /\ h_pub' = Append(h_pub, [client |-> data[1] = 1, clips |-> r.clips])
                     /\ h_pend' = [h_pend EXCEPT ![data[1] = 1] = id]
                     /\ h_op' = [op |-> "publish", client |-> data[1] = 1]
                     /\ UNCHANGED panicked
                ELSE UNCHANGED <<CLIPBOARDS_HOST, CLIPBOARDS_CLIENT, h_pub,
                                 h_pend, h_op, panicked>>
    /\ h_upd' = [called |-> TRUE, data |-> data,
                 host |-> CLIPBOARDS_HOST, client |-> CLIPBOARDS_CLIENT]
    /\ UNCHANGED <<ret_clip, h_exp, h_got>>
    /\ UNCHANGED <<frameVars, eventVars>>

\* get_clipboards(client)
get_clipboards(client) ==
    /\ ~panicked
    /\ LET box == get_mailbox(client)
           slot == IF box = "CLIPBOARDS_CLIENT" THEN CLIPBOARDS_CLIENT ELSE CLIPBOARDS_HOST
           res == take(slot)
       IN  /\ ret_clip' = [ret_clip EXCEPT ![client] = res[1]]
           /\ IF box = "CLIPBOARDS_CLIENT"
              THEN /\ CLIPBOARDS_CLIENT' = res[2]
                   /\ UNCHANGED CLIPBOARDS_HOST
              ELSE /\ CLIPBOARDS_HOST' = res[2]
                   /\ UNCHANGED CLIPBOARDS_CLIENT
           /\ h_got' = IF res[1] = <<>> THEN h_got
                       ELSE Append(h_got, [client |-> client, id |-> res[1][1].id,
                                           clips |-> res[1][1].clips])
    /\ h_exp' = [h_exp EXCEPT ![client] = h_pend[client]]
    /\ h_pend' = [h_pend EXCEPT ![client] = 0]
    /\ h_op' = [op |-> "take", client |-> client]
    /\ h_upd' = NoUpd
    /\ UNCHANGED <<panicked, h_pub>>
    /\ UNCHANGED <<frameVars, eventVars>>

NextClip ==
    \/ \E data \in ClipBufs : onClipboardUpdate(data)
    \/ \E client \in BOOLEAN : get_clipboards(client)

----------------------------------------------------------------------------
(* The JNI environment: the stored JavaVM and the Java callback objects *)

None == "None"

\* The Java objects the host passes as event callbacks.
Callbacks == {"cb1", "cb2"}

\* The contexts the host passes to Java_ffi_FFI_init.
Contexts == {"ctx1"}

\* How a call through JNI can end: the Java method ran and returned, the
\* Java method ran and threw, or the thread or the string could not be set up.
JniOutcomes == {"ok", "threw", "noenv"}

\* At most this many events are delivered before new calls stop.
MaxEvents == 2

RECURSIVE Delivered(_)
Delivered(S) ==
    IF S = {} THEN 0
    ELSE LET c == CHOOSE x \in S : TRUE
         IN Len(onEvent[c]) + Delivered(S \ {c})

EventsLeft == Delivered(Callbacks) < MaxEvents

\* AndroidEventCallback::send_event: whether onEvent ran, and the result.
send_event(jvm, jni) ==
    IF jvm = None THEN [invoked |-> FALSE, ret |-> FALSE]
    ELSE IF jni = "ok" THEN [invoked |-> TRUE, ret |-> TRUE]
    ELSE IF jni = "threw" THEN [invoked |-> TRUE, ret |-> FALSE]
    ELSE [invoked |-> FALSE, ret |-> FALSE]

\* Faulty variant: the call reaches every callback object.
call_method_all(log, c, event, jvm, jni) ==
    IF send_event(jvm, jni).invoked
    THEN [x \in DOMAIN log |-> Append(log[x], event)]
    ELSE log

\* The onEvent log after callback c was sent event through send_event.
call_method(log, c, event, jvm, jni) ==
    IF send_event(jvm, jni).invoked
    THEN [log EXCEPT ![c] = Append(@, event)]
    ELSE log

\* init_ndk_context: <<NDK_CONTEXT_INITED, ndk_context>> after the call.
init_ndk_context(inited, ctx) ==
    LET released == IF inited THEN "none" ELSE ctx
    IN  <<TRUE, IF released = "none" THEN "initialized" ELSE "twice">>

\* The threads that call Java_ffi_FFI_init and JNI_OnLoad.
InitThreads == {"i1", "i2"}

\* The JavaVM handles env.get_java_vm() hands out: each call wraps one of its
\* own.
JavaVMs == {"vm", "vm2"}

\* The contexts and clipboard managers the host passes in.
HostObjects == {"ctx1", "ctx2"}

\* At most MaxInits init_ndk_context calls complete in one run.
MaxInits == 3

\* Faulty variant: the handle is stored whether one is there or not.
store_jvm_always(old, jvm) == jvm

\* if jvm_lock.is_none() { *jvm_lock = Some(jvm) }
store_jvm(old, jvm) == IF old = None THEN jvm ELSE old

\* Faulty variant: init_ndk_context is entered without waiting for the mutex.
NdkLockFree_always(t) == TRUE

\* NDK_CONTEXT_INITED.lock(): the mutex can be acquired
NdkLockFree(t) == ndk_lock = None

\* ndk_context::release_android_context: the crate holds no context after
\* it; it must hold one before.
release_android_context(ctx) == IF ctx = "initialized" THEN "none" ELSE "bad_release"

\* ndk_context::initialize_android_context: the crate must hold no context
\* before.
initialize_android_context(ctx) == IF ctx = "none" THEN "initialized" ELSE "twice"

JniInit ==
    /\ JVM = None
    /\ MAIN_SERVICE_CTX = None
    /\ NDK_CONTEXT_INITED = FALSE
    /\ ndk_context = "none"
    /\ CLIPBOARD_MANAGER = None
    /\ ndk_lock = None
    /\ loaded = FALSE
    /\ pcI = [t \in InitThreads |-> "idle"]
    /\ iCtx = [t \in InitThreads |-> None]
    /\ h_jvm = [first |-> None, last |-> None]
    /\ h_ctx = None
    /\ h_inits = 0
    /\ onEvent = [c \in Callbacks |-> <<>>]

\* Java_ffi_FFI_init: vm_ok is env.get_java_vm() succeeding, ref_ok is
\* env.new_global_ref(ctx) succeeding.
Java_ffi_FFI_init(ctx, vm_ok, ref_ok) ==
    /\ IF vm_ok
       THEN /\ JVM' = store_jvm(JVM, "vm")
            /\ h_jvm' = [first |-> IF h_jvm.first = None THEN "vm" ELSE h_jvm.first,
                         last |-> "vm"]
            /\ IF ref_ok
               THEN /\ MAIN_SERVICE_CTX' = ctx
                    /\ h_ctx' = ctx
                    /\ NDK_CONTEXT_INITED' = init_ndk_context(NDK_CONTEXT_INITED, ndk_context)[1]
                    /\ ndk_context' = init_ndk_context(NDK_CONTEXT_INITED, ndk_context)[2]
               ELSE UNCHANGED <<MAIN_SERVICE_CTX, h_ctx, NDK_CONTEXT_INITED, ndk_context>>
       ELSE UNCHANGED <<JVM, h_jvm, MAIN_SERVICE_CTX, h_ctx, NDK_CONTEXT_INITED,
                        ndk_context>>
    /\ UNCHANGED <<CLIPBOARD_MANAGER, ndk_lock, loaded, pcI, iCtx, h_inits>>
    /\ UNCHANGED onEvent
    /\ UNCHANGED <<frameVars, clipVars, chanVars, regVars, sessVars>>

\* Java_ffi_FFI_init on thread t up to drop(jvm_lock): jvm is the handle
\* env.get_java_vm() returned, None if it failed; ref_ok is whether
\* env.new_global_ref(ctx) will succeed.
InitStoreJvm(t, ctx, jvm, ref_ok) ==
    /\ pcI[t] = "idle"
    /\ h_inits < MaxInits
    /\ jvm # None
    /\ JVM' = store_jvm(JVM, jvm)
    /\ h_jvm' = [first |-> IF h_jvm.first = None THEN jvm ELSE h_jvm.first,
                 last |-> jvm]
    /\ pcI' = [pcI EXCEPT ![t] = IF ref_ok THEN "store_ctx" ELSE "idle"]
    /\ iCtx' = [iCtx EXCEPT ![t] = IF ref_ok THEN ctx ELSE None]
    /\ UNCHANGED <<MAIN_SERVICE_CTX, NDK_CONTEXT_INITED, ndk_context,
                   CLIPBOARD_MANAGER, ndk_lock, loaded, h_ctx, h_inits>>
    /\ UNCHANGED <<onEvent, frameVars, clipVars, chanVars, regVars, sessVars>>

\* *MAIN_SERVICE_CTX.write().unwrap() = Some(context)
InitStoreCtx(t) ==
    /\ pcI[t] = "store_ctx"
    /\ MAIN_SERVICE_CTX' = iCtx[t]
    /\ h_ctx' = iCtx[t]
    /\ pcI' = [pcI EXCEPT ![t] = "ndk_enter"]
    /\ UNCHANGED <<JVM, NDK_CONTEXT_INITED, ndk_context, CLIPBOARD_MANAGER,
                   ndk_lock, loaded, iCtx, h_jvm, h_inits>>
    /\ UNCHANGED <<onEvent, frameVars, clipVars, chanVars, regVars, sessVars>>

\* JNI_OnLoad(vm, res), once, when the library is loaded: with an env it
\* calls init_ndk_context(vm, res).
JNI_OnLoad(t, env_ok) ==
    /\ pcI[t] = "idle"
    /\ ~loaded
    /\ loaded' = TRUE
    /\ pcI' = [pcI EXCEPT ![t] = IF env_ok THEN "ndk_enter" ELSE "idle"]
    /\ iCtx' = [iCtx EXCEPT ![t] = IF env_ok THEN "res" ELSE None]
    /\ UNCHANGED <<JVM, MAIN_SERVICE_CTX, NDK_CONTEXT_INITED, ndk_context,
                   CLIPBOARD_MANAGER, ndk_lock, h_jvm, h_ctx, h_inits>>
    /\ UNCHANGED <<onEvent, frameVars, clipVars, chanVars, regVars, sessVars>>

\* init_ndk_context on thread t, first half: take the mutex and, if the flag
\* is set, release the android context and clear the flag.
NdkEnter(t) ==
    /\ pcI[t] = "ndk_enter"
    /\ NdkLockFree(t)
    /\ ndk_lock' = t
    /\ IF NDK_CONTEXT_INITED
       THEN /\ ndk_context' = release_android_context(ndk_context)
            /\ NDK_CONTEXT_INITED' = FALSE
       ELSE UNCHANGED <<ndk_context, NDK_CONTEXT_INITED>>
    /\ pcI' = [pcI EXCEPT ![t] = "ndk_init"]
    /\ UNCHANGED <<JVM, MAIN_SERVICE_CTX, CLIPBOARD_MANAGER, loaded, iCtx,
                   h_jvm, h_ctx, h_inits>>
    /\ UNCHANGED <<onEvent, frameVars, clipVars, chanVars, regVars, sessVars>>

\* init_ndk_context, second half: initialize the android context, set the
\* flag, drop the guard.
NdkInit(t) ==
    /\ pcI[t] = "ndk_init"
    /\ ndk_context' = initialize_android_context(ndk_context)
    /\ NDK_CONTEXT_INITED' = TRUE
    /\ ndk_lock' = IF ndk_lock = t THEN None ELSE ndk_lock
    /\ pcI' = [pcI EXCEPT ![t] = "idle"]
    /\ iCtx' = [iCtx EXCEPT ![t] = None]
    /\ h_inits' = h_inits + 1
    /\ UNCHANGED <<JVM, MAIN_SERVICE_CTX, CLIPBOARD_MANAGER, loaded, h_jvm, h_ctx>>
    /\ UNCHANGED <<onEvent, frameVars, clipVars, chanVars, regVars, sessVars>>

\* Java_ffi_FFI_setClipboardManager(clipboard_manager)
Java_ffi_FFI_setClipboardManager(manager, jvm, ref_ok) ==
    /\ jvm # None
    /\ JVM' = store_jvm(JVM, jvm)
    /\ h_jvm' = [first |-> IF h_jvm.first = None THEN jvm ELSE h_jvm.first,
                 last |-> jvm]
    /\ CLIPBOARD_MANAGER' = IF ref_ok THEN manager ELSE CLIPBOARD_MANAGER
    /\ UNCHANGED <<MAIN_SERVICE_CTX, NDK_CONTEXT_INITED, ndk_context, ndk_lock,
                   loaded, pcI, iCtx, h_ctx, h_inits>>
    /\ UNCHANGED <<onEvent, frameVars, clipVars, chanVars, regVars, sessVars>>

NextInit ==
    \/ \E t \in InitThreads, ctx \in HostObjects, jvm \in JavaVMs, ref_ok \in BOOLEAN :
          InitStoreJvm(t, ctx, jvm, ref_ok)
    \/ \E t \in InitThreads : InitStoreCtx(t)
    \/ \E t \in InitThreads, env_ok \in BOOLEAN : JNI_OnLoad(t, env_ok)
    \/ \E t \in InitThreads : NdkEnter(t)
    \/ \E t \in InitThreads : NdkInit(t)
    \/ \E manager \in HostObjects, jvm \in JavaVMs, ref_ok \in BOOLEAN :
          Java_ffi_FFI_setClipboardManager(manager, jvm, ref_ok)

\* The service starts: the context is one the JVM can reference.
NextJni == \E ctx \in Contexts, vm_ok \in BOOLEAN : Java_ffi_FFI_init(ctx, vm_ok, TRUE)

----------------------------------------------------------------------------
(* Global event channels *)

APP_TYPE_MAIN == <<"m", "a", "i", "n">>
APP_TYPE_CM == <<"m", "a", "i", "n">>

\* The channel names the host and the bridge use: "main", "cm", "main,cm".
ChannelNames == {APP_TYPE_MAIN, <<"c", "m">>, <<"m", "a", "i", "n", ",", "c", "m">>}

\* The threads that push events.
Pushers == {"t1"}

\* app_type.split(','): the sequence of the segments between commas
RECURSIVE split(_)
split(s) ==
    IF s = <<>> THEN << <<>> >>
    ELSE LET r == split(Tail(s))
         IN  IF Head(s) = ","
             THEN << <<>> >> \o r
             ELSE << <<Head(s)>> \o r[1] >> \o Tail(r)

PlainNames == {a \in ChannelNames : Len(split(a)) = 1}

\* HashMap operations on the registry
contains_key(map, key) == map[key] # None

insert(map, key, callback) == [map EXCEPT ![key] = callback]

\* Faulty variant: the whole map is cleared.
remove_all(map, key) == [k \in DOMAIN map |-> None]

remove(map, key) == [map EXCEPT ![key] = None]

\* Faulty variant: the lookup finds the sink of any registered name.
get_any(map, channel) ==
    IF \E k \in DOMAIN map : map[k] # None
    THEN map[CHOOSE k \in DOMAIN map : map[k] # None]
    ELSE None

get(map, channel) == map[channel]

\* Faulty variant: every name the registry ever knew is listed.
get_global_event_channels_all(map) == DOMAIN map

\* get_global_event_channels: the keys of the map, cloned
get_global_event_channels(map) == {k \in DOMAIN map : map[k] # None}

\* The key register_global_event_callback inserts under.
register_key(map, app_type) ==
    LET app_type_values == split(app_type)
    IN  IF ~contains_key(map, app_type_values[1])
        THEN app_type_values[1]
        ELSE app_type

\* Faulty variant: a writer does not wait for the readers.
CanWrite_always == TRUE

\* GLOBAL_EVENT_CALLBACKS.write(): no reader holds the RwLock.  A pusher
\* holds the read guard from its lookup until push_global_event returns.
CanWrite == \A t \in Pushers : pcP[t] = "idle"

\* A close notification reached callback c in this step.
CloseDelivered(c) == c \in Callbacks /\ onEvent'[c] = Append(onEvent[c], "close")

NoReg == [op |-> "none", name |-> <<>>, args |-> FALSE, old |-> None,
          closed |-> FALSE, ret |-> 0]

\* The InvokeUiCM methods of the connection manager's AndroidHandler.
CmHandlers == {"add_connection", "remove_connection", "new_message",
               "change_theme", "change_language", "show_elevation",
               "update_voice_call_state", "file_transfer_log"}

\* the event name each method passes to push_event
event_name(handler) ==
    CASE handler = "remove_connection" -> "on_client_remove"
      [] handler = "new_message" -> "chat_server_mode"
      [] handler = "change_theme" -> "theme"
      [] handler = "change_language" -> "language"
      [] handler = "file_transfer_log" -> "cm_file_transfer_log"
      [] OTHER -> handler

\* the keys of the pairs each method passes to push_event; the key of
\* file_transfer_log is its `action` argument.
event_keys(handler) ==
    CASE handler \in {"add_connection", "update_voice_call_state"} -> {"client"}
      [] handler = "remove_connection" -> {"id", "close"}
      [] handler = "new_message" -> {"id", "text"}
      [] handler = "change_theme" -> {"dark"}
      [] handler = "show_elevation" -> {"show"}
      [] handler = "file_transfer_log" -> {"transfer"}
      [] OTHER -> {}

\* the methods that call call_main_service_set_by_name before push_event
ServiceHandlers == {"add_connection", "update_voice_call_state"}

\* Faulty variant: the event name is not added to the object.
push_event_noname(name, keys) == {<<k, "v">> : k \in keys}

\* push_event: the JSON object h as a set of <<key, value>> pairs, the pairs
\* of the event and then h.insert("name", name)
push_event_object(name, keys) ==
    {<<k, "v">> : k \in keys \ {"name"}} \cup {<<"name", name>>}

\* No connection-manager call
NoCm == [handler |-> "none", event |-> {}]

ChanInit ==
    /\ GLOBAL_EVENT_CALLBACKS = [a \in ChannelNames |-> None]
    /\ pcP = [t \in Pushers |-> "idle"]
    /\ pName = [t \in Pushers |-> <<>>]
    /\ pCb = [t \in Pushers |-> None]
    /\ pRet = [t \in Pushers |-> "None"]
    /\ h_reg = NoReg
    /\ h_second = [a \in PlainNames |-> None]
    /\ h_failed = <<>>
    /\ ret_channels = {}
    /\ pCm = [t \in Pushers |-> NoCm]
    /\ main_service = {}

\* register_global_event_callback(app_type, callback); jni_ok is the string
\* and the global reference being obtained.
register_global_event_callback(app_type, callback, jni_ok) ==
    /\ IF jni_ok
       THEN /\ CanWrite
            /\ GLOBAL_EVENT_CALLBACKS' =
                   insert(GLOBAL_EVENT_CALLBACKS,
                          register_key(GLOBAL_EVENT_CALLBACKS, app_type), callback)
            /\ h_second' = IF app_type \in PlainNames
                           THEN [h_second EXCEPT ![app_type] =
                                    IF GLOBAL_EVENT_CALLBACKS[app_type] # None
                                    THEN callback ELSE None]
                           ELSE h_second
       ELSE UNCHANGED <<GLOBAL_EVENT_CALLBACKS, h_second>>
    /\ UNCHANGED jniVars
    /\ h_reg' = [op |-> "register", name |-> app_type, args |-> jni_ok,
                 old |-> GLOBAL_EVENT_CALLBACKS[app_type],
                 closed |-> CloseDelivered(GLOBAL_EVENT_CALLBACKS[app_type]),
                 ret |-> IF jni_ok THEN 1 ELSE 0]
    /\ UNCHANGED <<pcP, pName, pCb, pRet, h_failed, ret_channels, pCm, main_service>>
    /\ UNCHANGED <<frameVars, clipVars, regVars, sessVars>>

\* unregister_global_event_callback(app_type)
unregister_global_event_callback(app_type, jni_ok) ==
    /\ IF jni_ok
       THEN /\ CanWrite
            /\ GLOBAL_EVENT_CALLBACKS' = remove(GLOBAL_EVENT_CALLBACKS, app_type)
            /\ h_second' = IF app_type \in PlainNames
                           THEN [h_second EXCEPT ![app_type] = None]
                           ELSE h_second
       ELSE UNCHANGED <<GLOBAL_EVENT_CALLBACKS, h_second>>
    /\ UNCHANGED jniVars
    /\ h_reg' = [op |-> "unregister", name |-> app_type, args |-> jni_ok,
                 old |-> GLOBAL_EVENT_CALLBACKS[app_type],
                 closed |-> CloseDelivered(GLOBAL_EVENT_CALLBACKS[app_type]),
                 ret |-> IF jni_ok THEN 1 ELSE 0]
    /\ UNCHANGED <<pcP, pName, pCb, pRet, h_failed, ret_channels, pCm, main_service>>
    /\ UNCHANGED <<frameVars, clipVars, regVars, sessVars>>

\* push_global_event(channel, event): the read guard is taken and the
\* channel looked up.
PushEnter(t, channel) ==
    /\ pcP[t] = "idle"
    /\ EventsLeft
    /\ pName' = [pName EXCEPT ![t] = channel]
    /\ pCb' = [pCb EXCEPT ![t] = get(GLOBAL_EVENT_CALLBACKS, channel)]
    /\ pcP' = [pcP EXCEPT ![t] = IF pCb'[t] = None THEN "ret" ELSE "locked"]
    /\ UNCHANGED <<pRet, GLOBAL_EVENT_CALLBACKS, h_reg, h_second, h_failed, ret_channels,
                   pCm, main_service>>
    /\ UNCHANGED <<frameVars, clipVars, jniVars, regVars, sessVars>>

\* push_global_event: callback.send_event(event) inside the map closure
PushSend(t, jni) ==
    /\ pcP[t] = "locked"
    /\ onEvent' = call_method(onEvent, pCb[t], "event", JVM, jni)
    /\ pRet' = [pRet EXCEPT ![t] = IF send_event(JVM, jni).ret
                                   THEN "Some(true)" ELSE "Some(false)"]
    /\ pcP' = [pcP EXCEPT ![t] = "ret"]
    /\ h_failed' = IF pRet'[t] = "Some(false)" THEN pName[t]
                   ELSE IF h_failed = pName[t] THEN <<>> ELSE h_failed
    /\ UNCHANGED <<pName, pCb, GLOBAL_EVENT_CALLBACKS, h_reg, h_second, ret_channels,
                   pCm, main_service>>
    /\ UNCHANGED jvmVars
    /\ UNCHANGED <<frameVars, clipVars, regVars, sessVars>>

\* push_global_event returns: the read guard is dropped.
PushReturn(t) ==
    /\ pcP[t] = "ret"
    /\ pcP' = [pcP EXCEPT ![t] = "idle"]
    /\ pName' = [pName EXCEPT ![t] = <<>>]
    /\ pCb' = [pCb EXCEPT ![t] = None]
    /\ pRet' = [pRet EXCEPT ![t] = "None"]
    /\ pCm' = [pCm EXCEPT ![t] = NoCm]
    /\ UNCHANGED <<GLOBAL_EVENT_CALLBACKS, h_reg, h_second, h_failed, ret_channels,
                   main_service>>
    /\ UNCHANGED <<frameVars, clipVars, jniVars, regVars, sessVars>>

\* A method of InvokeUiCM on thread t: call_main_service_set_by_name where
\* the method makes that call (svc_ok: the JNI call went through), then
\* push_event up to the lookup in push_global_event(APP_TYPE_CM, event_json).
InvokeUiCM(t, handler, svc_ok) ==
    /\ pcP[t] = "idle"
    /\ EventsLeft
    /\ main_service' =
          IF /\ handler \in ServiceHandlers
             /\ JVM # None /\ MAIN_SERVICE_CTX # None /\ svc_ok
          THEN main_service \cup {handler}
          ELSE main_service
    /\ pCm' = [pCm EXCEPT ![t] =
          [handler |-> handler,
           event |-> push_event_object(event_name(handler), event_keys(handler))]]
    /\ pName' = [pName EXCEPT ![t] = APP_TYPE_CM]
    /\ pCb' = [pCb EXCEPT ![t] = get(GLOBAL_EVENT_CALLBACKS, APP_TYPE_CM)]
    /\ pcP' = [pcP EXCEPT ![t] = IF pCb'[t] = None THEN "ret" ELSE "locked"]
    /\ UNCHANGED <<pRet, GLOBAL_EVENT_CALLBACKS, h_reg, h_second, h_failed, ret_channels>>
    /\ UNCHANGED <<frameVars, clipVars, jniVars, regVars, sessVars>>

\* get_global_event_channels(): the keys are cloned under the read guard.
ListChannels ==
    /\ ret_channels' = get_global_event_channels(GLOBAL_EVENT_CALLBACKS)
    /\ UNCHANGED <<GLOBAL_EVENT_CALLBACKS, pcP, pName, pCb, pRet, h_reg, h_second,
                   h_failed, pCm, main_service>>
    /\ UNCHANGED <<frameVars, clipVars, jniVars, regVars, sessVars>>

NextChan ==
    \/ \E app_type \in ChannelNames, callback \in Callbacks, jni_ok \in BOOLEAN :
           register_global_event_callback(app_type, callback, jni_ok)
    \/ \E app_type \in ChannelNames, jni_ok \in BOOLEAN :
           unregister_global_event_callback(app_type, jni_ok)
    \/ \E t \in Pushers, channel \in ChannelNames : PushEnter(t, channel)
    \/ \E t \in Pushers, jni \in JniOutcomes : PushSend(t, jni)
    \/ \E t \in Pushers : PushReturn(t)
    \/ NextJni

\* The connection manager's events against registers and unregisters.
NextCm ==
    \/ \E app_type \in PlainNames, callback \in Callbacks :
           register_global_event_callback(app_type, callback, TRUE)
    \/ \E app_type \in PlainNames : unregister_global_event_callback(app_type, TRUE)
    \/ \E t \in Pushers, handler \in CmHandlers, svc_ok \in BOOLEAN :
           InvokeUiCM(t, handler, svc_ok)
    \/ \E t \in Pushers, jni \in JniOutcomes : PushSend(t, jni)
    \/ \E t \in Pushers : PushReturn(t)
    \/ NextJni

\* The channel list against registers and unregisters.
NextList ==
    \/ \E app_type \in ChannelNames, callback \in Callbacks, jni_ok \in BOOLEAN :
           register_global_event_callback(app_type, callback, jni_ok)
    \/ \E app_type \in ChannelNames, jni_ok \in BOOLEAN :
           unregister_global_event_callback(app_type, jni_ok)
    \/ ListChannels

----------------------------------------------------------------------------
(* The session map of ffi.rs *)

SessionIds == {"s1", "s2"}

\* The strings the host passes as session ids: the last is no UUID.
SessionIdStrings == SessionIds \cup {"bad"}

Peers == {"p1", "p2"}

\* What a query on a session can return.
QueryValues == {"", "value"}

\* uuid::Uuid::parse_str
parse_str(session_id) == IF session_id \in SessionIds THEN session_id ELSE None

\* Session::new
Session_new(id, peer_id) == [id |-> id, peer_id |-> peer_id]

NoSession == [id |-> None, peer_id |-> None]

NoCall == [fn |-> "none", id |-> None, peer |-> None, dup |-> FALSE,
           prev |-> NoSession, found |-> FALSE, closed |-> FALSE, ret |-> ""]

RegInit ==
    /\ SESSIONS = [id \in SessionIds |-> NoSession]
    /\ ret_query = ""
    /\ h_call = NoCall
    /\ h_life = [id \in SessionIds |-> "never"]

\* Java_ffi_FFI_sessionAdd(session_id, id = peer, ...)
Java_ffi_FFI_sessionAdd(session_id, peer) ==
    /\ LET id == parse_str(session_id)
       IN  IF id = None
           THEN /\ h_call' = [NoCall EXCEPT !.fn = "sessionAdd",
                                 !.peer = peer,
                                 !.ret = "Failed to parse session_id as UUID"]
                /\ UNCHANGED <<SESSIONS, h_life>>
           ELSE /\ SESSIONS' = [SESSIONS EXCEPT ![id] = Session_new(id, peer)]
                /\ h_call' = [NoCall EXCEPT !.fn = "sessionAdd",
                                 !.peer = peer,
                                 !.dup = (SESSIONS[id] # NoSession),
                                 !.prev = SESSIONS[id],
                                 !.ret = ""]
                /\ h_life' = [h_life EXCEPT ![id] = "added"]
    /\ UNCHANGED ret_query
    /\ UNCHANGED <<frameVars, clipVars, jniVars, chanVars, sessVars>>

\* The query calls that read SESSIONS: Java_ffi_FFI_sessionGetPlatform and
\* Java_ffi_FFI_sessionGetImageQuality.
Queries == {"sessionGetPlatform", "sessionGetImageQuality"}

SessionQuery(fn, session_id, value) ==
    /\ LET id == parse_str(session_id)
           session == IF id = None THEN NoSession ELSE SESSIONS[id]
       IN  /\ ret_query' = IF session = NoSession THEN "" ELSE value
           /\ h_call' = [NoCall EXCEPT !.fn = fn,
                            !.found = (session # NoSession),
                            !.closed = (id # None /\ h_life[id] = "closed"),
                            !.ret = ret_query']
    /\ UNCHANGED <<SESSIONS, h_life>>
    /\ UNCHANGED <<frameVars, clipVars, jniVars, chanVars, sessVars>>

----------------------------------------------------------------------------
(* The sessions of crate::flutter and their event sinks *)

\* At most this many session objects are created.
MaxArcs == 1
\* The number of onEvent calls the session sinks receive in a run.
MaxSends == 1
SendsLeft == Delivered(Callbacks) < MaxSends

Arcs == 1..MaxArcs

NoArc == 0

\* The session ids the sink operations are called with, and the strings
\* they are passed as.
SinkIds == {"s1"}

SinkIdStrings == SinkIds \cup {"bad"}

\* The threads that send events to the UI.
Senders == {"u1"}

\* EventToUI values sent by the engine.
EventsToUI == {[type |-> "Event", s |-> "msg"]}

\* send_event_to_ui: the string sent for an EventToUI
event_str(event) == IF event.type = "Event" THEN event.s ELSE "rgba"

\* A session handler map: one AndroidSessionHandler under key, or empty.
NoHandler == [key |-> None, event_callback |-> None]

\* crate::flutter::session_add: whether the id can be added
session_add_ok(reg, id) == reg[id] = NoArc

\* crate::flutter::sessions::get_session_by_session_id
get_session_by_session_id(reg, id) == reg[id]

\* crate::flutter::sessions::remove_session_by_session_id: <<map, removed>>
remove_session_by_session_id(reg, id) == <<[reg EXCEPT ![id] = NoArc], reg[id]>>

\* crate::flutter::sessions::get_sessions
get_sessions(reg) == {reg[id] : id \in DOMAIN reg} \ {NoArc}

\* Session::close_event_stream: the handler of the id is dropped
close_event_stream(handlers, arc, id) ==
    IF handlers[arc].key = id THEN [handlers EXCEPT ![arc] = NoHandler] ELSE handlers

\* ConnectionRoundState::new_round
new_round(round) == round + 1

\* handlers.get(session_id) with the downcast to AndroidSessionHandler
handler_of(handlers, arc, id) == handlers[arc].key = id

\* android_handler.event_callback = Some(callback)
install(handlers, arc, callback) ==
    [handlers EXCEPT ![arc].event_callback = callback]

\* The session the scan of session_start_with_android_callback stops at.
scan(reg, handlers, id) ==
    IF \E a \in get_sessions(reg) : handler_of(handlers, a, id)
    THEN CHOOSE a \in get_sessions(reg) : handler_of(handlers, a, id)
    ELSE NoArc

\* Faulty variant: a writer does not wait for the readers.
HandlersCanWrite_always(arc) == TRUE

\* session_handlers.write(): no sender holds the read guard of the session.
HandlersCanWrite(arc) == \A t \in Senders : ~(pcS[t] \in {"locked", "ret"} /\ sArc[t] = arc)

\* Faulty variant: the session is looked up, not removed.
close_lookup_peek(reg, id) == <<reg, reg[id]>>

\* Java_ffi_FFI_sessionClose: sessions::remove_session_by_session_id(&session_id)
close_lookup(reg, id) == remove_session_by_session_id(reg, id)

NoEv == [op |-> "none", old |-> None, closed |-> FALSE]

Idle == [pc |-> "idle", id |-> None, arc |-> NoArc, readd |-> FALSE]

NotStarting == [pc |-> "idle", id |-> None, is_connected |-> FALSE]

\* At most this many reconnects of one session.
MaxRounds == 2

\* The positions in io_loops: a spawned loop and the reconnects per session.
LoopIds == 1..(MaxArcs * (MaxRounds + 1))

\* Faulty variant: the round is read, no new round is begun.
round_token_peek(round) == round

\* session.connection_round_state.lock().unwrap().new_round(): the round
\* state it leaves, which is the token handed to io_loop.
round_token(round) == new_round(round)

\* Faulty variant: a loop never finds itself superseded.
is_current_always(round, token) == TRUE

\* crate::flutter::io_loop: the check a loop makes before it acts
is_current(round, token) == round = token

\* Control calls that reach the session, and query calls on the session.
ControlFns == {"sessionInputKey", "sessionRefresh"}

StringGetFns == {"sessionGetOption"}

BoolGetFns == {"sessionGetToggleOption", "sessionGetIsRecording"}

GetFns == StringGetFns \cup BoolGetFns

\* Faulty variant: a call on an unknown id reaches some other session.
session_lookup_any(reg, id) ==
    IF get_session_by_session_id(reg, id) # NoArc
    THEN get_session_by_session_id(reg, id)
    ELSE IF get_sessions(reg) # {} THEN CHOOSE a \in get_sessions(reg) : TRUE
    ELSE NoArc

\* sessions::get_session_by_session_id(&session_id) in the control and
\* query handlers of ffi.rs
session_lookup(reg, id) == get_session_by_session_id(reg, id)

NoCtl == [fn |-> "none", id |-> None, found |-> FALSE, str |-> "", int |-> 0]

NoAct == [arc |-> NoArc, token |-> 0, round |-> 0]

SessInit ==
    /\ sessions = [id \in SessionIds |-> NoArc]
    /\ arc_count = 0
    /\ session_handlers = [a \in Arcs |-> NoHandler]
    /\ connection_round_state = [a \in Arcs |-> 0]
    /\ spawned = [a \in Arcs |-> 0]
    /\ io_loops = <<>>
    /\ closing = Idle
    /\ starting = NotStarting
    /\ pcS = [t \in Senders |-> "idle"]
    /\ sId = [t \in Senders |-> None]
    /\ sArc = [t \in Senders |-> NoArc]
    /\ sCb = [t \in Senders |-> None]
    /\ sRet = [t \in Senders |-> FALSE]
    /\ h_ev = NoEv
    /\ h_superseded = [a \in Arcs |-> {}]
    /\ h_closed = [id \in SessionIds |-> FALSE]
    /\ h_after = [t \in Senders |-> FALSE]
    /\ inputs = [a \in Arcs |-> {}]
    /\ h_ctl = NoCtl
    /\ h_act = NoAct

\* Java_ffi_FFI_sessionAddSync -> session_add -> flutter::session_add
Java_ffi_FFI_sessionAddSync(session_id, peer) ==
    /\ LET id == parse_str(session_id)
       IN  IF id # None /\ session_add_ok(sessions, id)
           THEN /\ arc_count < MaxArcs
                /\ arc_count' = arc_count + 1
                /\ sessions' = [sessions EXCEPT ![id] = arc_count']
                /\ session_handlers' = [session_handlers EXCEPT ![arc_count'] =
                                           [key |-> id, event_callback |-> None]]
                /\ h_closed' = [h_closed EXCEPT ![id] = FALSE]
                /\ closing' = IF closing.id = id
                              THEN [closing EXCEPT !.readd = TRUE] ELSE closing
           ELSE UNCHANGED <<arc_count, sessions, session_handlers, h_closed, closing>>
    /\ UNCHANGED <<connection_round_state, spawned, io_loops, starting,
                   pcS, sId, sArc, sCb, sRet, h_ev, h_superseded, h_after>>
    /\ UNCHANGED <<ctlVars, frameVars, clipVars, jniVars, chanVars, regVars>>

\* Java_ffi_FFI_sessionClose, up to the removal from the session map
CloseRemove(session_id) ==
    /\ closing.pc = "idle"
    /\ LET id == parse_str(session_id)
       IN  IF id = None
           THEN UNCHANGED <<sessions, closing, h_closed, h_life>>
           ELSE /\ sessions' = close_lookup(sessions, id)[1]
                /\ IF close_lookup(sessions, id)[2] = NoArc
                   THEN /\ closing' = closing
                        /\ h_closed' = [h_closed EXCEPT ![id] = TRUE]
                        /\ h_life' = [h_life EXCEPT ![id] =
                                         IF @ = "added" THEN "closed" ELSE @]
                   ELSE /\ closing' = [pc |-> "removed", id |-> id,
                                       arc |-> close_lookup(sessions, id)[2],
                                       readd |-> FALSE]
                        /\ UNCHANGED <<h_closed, h_life>>
    /\ UNCHANGED <<arc_count, session_handlers, connection_round_state, spawned,
                   io_loops, starting, pcS, sId, sArc, sCb, sRet,
                   h_ev, h_superseded, h_after>>
    /\ UNCHANGED <<SESSIONS, ret_query, h_call>>
    /\ UNCHANGED <<ctlVars, frameVars, clipVars, jniVars, chanVars>>

\* Java_ffi_FFI_sessionClose: release_remote_keys, close_event_stream, close
CloseStream ==
    /\ closing.pc = "removed"
    /\ HandlersCanWrite(closing.arc)
    /\ session_handlers' = close_event_stream(session_handlers, closing.arc, closing.id)
    /\ closing' = Idle
    /\ h_closed' = [h_closed EXCEPT ![closing.id] = ~closing.readd]
    /\ h_life' = [h_life EXCEPT ![closing.id] = IF @ = "added" THEN "closed" ELSE @]
    /\ UNCHANGED <<sessions, arc_count, connection_round_state, spawned, io_loops,
                   starting, pcS, sId, sArc, sCb, sRet, h_ev, h_superseded, h_after>>
    /\ UNCHANGED <<SESSIONS, ret_query, h_call>>
    /\ UNCHANGED <<ctlVars, frameVars, clipVars, jniVars, chanVars>>

\* The sinks of a session that were replaced, after callback replaced old.
Supersede(set, old, callback) ==
    (IF old # None THEN set \cup {old} ELSE set) \ {callback}

\* register_session_event_callback(session_id, callback)
register_session_event_callback(session_id, callback, jni_ok) ==
    /\ LET id == parse_str(session_id)
           arc == IF id = None THEN NoArc ELSE get_session_by_session_id(sessions, id)
       IN  IF jni_ok /\ arc # NoArc /\ handler_of(session_handlers, arc, id)
           THEN /\ HandlersCanWrite(arc)
                /\ session_handlers' = install(session_handlers, arc, callback)
                /\ UNCHANGED jniVars
                /\ h_ev' = [op |-> "register",
                            old |-> session_handlers[arc].event_callback,
                            closed |-> CloseDelivered(session_handlers[arc].event_callback)]
                /\ h_superseded' = [h_superseded EXCEPT ![arc] =
                       Supersede(@, session_handlers[arc].event_callback, callback)]
           ELSE /\ h_ev' = [NoEv EXCEPT !.op = "register"]
                /\ UNCHANGED <<session_handlers, h_superseded>>
                /\ UNCHANGED jniVars
    /\ UNCHANGED <<sessions, arc_count, connection_round_state, spawned, io_loops,
                   closing, starting, pcS, sId, sArc, sCb, sRet, h_closed, h_after>>
    /\ UNCHANGED <<ctlVars, frameVars, clipVars, chanVars, regVars>>

\* start_session -> session_start_with_android_callback, up to the end of
\* the scan of the sessions; jni is how sending "close" ends.
StartInstall(session_id, callback, jni_ok, jni) ==
    /\ starting.pc = "idle"
    /\ LET id == parse_str(session_id)
           arc == IF id = None THEN NoArc ELSE scan(sessions, session_handlers, id)
           old == IF arc = NoArc THEN None ELSE session_handlers[arc].event_callback
       IN  IF jni_ok /\ arc # NoArc
           THEN /\ HandlersCanWrite(arc)
                /\ old # None => SendsLeft
                /\ onEvent' = IF old # None
                              THEN call_method(onEvent, old, "close", JVM, jni)
                              ELSE onEvent
                /\ session_handlers' = install(session_handlers, arc, callback)
                /\ starting' = [pc |-> "installed", id |-> id,
                                is_connected |-> (old # None)]
                /\ h_ev' = [op |-> "start", old |-> old,
                            closed |-> CloseDelivered(old)]
                /\ h_superseded' = [h_superseded EXCEPT ![arc] =
                                       Supersede(@, old, callback)]
           ELSE /\ starting' = NotStarting
                /\ h_ev' = [NoEv EXCEPT !.op = "start"]
                /\ UNCHANGED <<onEvent, session_handlers, h_superseded>>
    /\ UNCHANGED jvmVars
    /\ UNCHANGED <<sessions, arc_count, connection_round_state, spawned, io_loops,
                   closing, pcS, sId, sArc, sCb, sRet, h_closed, h_after>>
    /\ UNCHANGED <<ctlVars, frameVars, clipVars, chanVars, regVars>>

\* session_start_with_android_callback after the scan: the session is
\* looked up again and the io thread spawned for a first start.
StartSpawn ==
    /\ starting.pc = "installed"
    /\ LET arc == get_session_by_session_id(sessions, starting.id)
       IN  IF arc # NoArc
           THEN /\ spawned' = IF ~starting.is_connected
                                 /\ session_handlers[arc].key # None
                              THEN [spawned EXCEPT ![arc] = @ + 1]
                              ELSE spawned
                /\ starting' = NotStarting
           ELSE /\ starting' = NotStarting
                /\ UNCHANGED spawned
    /\ UNCHANGED <<sessions, arc_count, session_handlers, connection_round_state,
                   io_loops, closing, pcS, sId, sArc, sCb, sRet,
                   h_ev, h_superseded, h_closed, h_after>>
    /\ UNCHANGED <<ctlVars, frameVars, clipVars, jniVars, chanVars, regVars>>

\* The spawned thread: new_round under the round-state lock, then io_loop
\* with the token obtained.
IoLoopStart(arc) ==
    /\ spawned[arc] > 0
    /\ spawned' = [spawned EXCEPT ![arc] = @ - 1]
    /\ connection_round_state' =
           [connection_round_state EXCEPT ![arc] = round_token(@)]
    /\ io_loops' = Append(io_loops, [arc |-> arc,
                                     round |-> connection_round_state'[arc],
                                     live |-> TRUE])
    /\ UNCHANGED <<sessions, arc_count, session_handlers, closing, starting,
                   pcS, sId, sArc, sCb, sRet, h_ev, h_superseded, h_closed, h_after>>
    /\ UNCHANGED <<ctlVars, frameVars, clipVars, jniVars, chanVars, regVars>>

\* send_event_to_ui: get_session_by_session_id
SendLookup(t, id) ==
    /\ pcS[t] = "idle"
    /\ SendsLeft
    /\ sId' = [sId EXCEPT ![t] = id]
    /\ sArc' = [sArc EXCEPT ![t] = get_session_by_session_id(sessions, id)]
    /\ pcS' = [pcS EXCEPT ![t] = IF sArc'[t] = NoArc THEN "ret" ELSE "got"]
    /\ sRet' = [sRet EXCEPT ![t] = FALSE]
    /\ h_after' = [h_after EXCEPT ![t] = h_closed[id]]
    /\ UNCHANGED <<sessions, arc_count, session_handlers, connection_round_state,
                   spawned, io_loops, closing, starting, sCb,
                   h_ev, h_superseded, h_closed>>
    /\ UNCHANGED <<ctlVars, frameVars, clipVars, jniVars, chanVars, regVars>>

\* send_event_to_ui: session_handlers.read() and the lookup of the callback
SendLock(t) ==
    /\ pcS[t] = "got"
    /\ sCb' = [sCb EXCEPT ![t] = IF handler_of(session_handlers, sArc[t], sId[t])
                                 THEN session_handlers[sArc[t]].event_callback
                                 ELSE None]
    /\ pcS' = [pcS EXCEPT ![t] = IF sCb'[t] = None THEN "ret" ELSE "locked"]
    /\ UNCHANGED <<sessions, arc_count, session_handlers, connection_round_state,
                   spawned, io_loops, closing, starting, sId, sArc, sRet,
                   h_ev, h_superseded, h_closed, h_after>>
    /\ UNCHANGED <<ctlVars, frameVars, clipVars, jniVars, chanVars, regVars>>

\* send_event_to_ui: callback.send_event(event_str)
SendInvoke(t, event, jni) ==
    /\ pcS[t] = "locked"
    /\ onEvent' = call_method(onEvent, sCb[t], event_str(event), JVM, jni)
    /\ sRet' = [sRet EXCEPT ![t] = send_event(JVM, jni).ret]
    /\ pcS' = [pcS EXCEPT ![t] = "ret"]
    /\ UNCHANGED jvmVars
    /\ UNCHANGED <<sessions, arc_count, session_handlers, connection_round_state,
                   spawned, io_loops, closing, starting, sId, sArc, sCb,
                   h_ev, h_superseded, h_closed, h_after>>
    /\ UNCHANGED <<ctlVars, frameVars, clipVars, chanVars, regVars>>

\* send_event_to_ui returns: the read guard and the session are dropped.
SendReturn(t) ==
    /\ pcS[t] = "ret"
    /\ pcS' = [pcS EXCEPT ![t] = "idle"]
    /\ sId' = [sId EXCEPT ![t] = None]
    /\ sArc' = [sArc EXCEPT ![t] = NoArc]
    /\ sCb' = [sCb EXCEPT ![t] = None]
    /\ sRet' = [sRet EXCEPT ![t] = FALSE]
    /\ h_after' = [h_after EXCEPT ![t] = FALSE]
    /\ UNCHANGED <<sessions, arc_count, session_handlers, connection_round_state,
                   spawned, io_loops, closing, starting,
                   h_ev, h_superseded, h_closed>>
    /\ UNCHANGED <<ctlVars, frameVars, clipVars, jniVars, chanVars, regVars>>

\* Java_ffi_FFI_sessionReconnect -> session.reconnect: a new round is begun
\* and an io loop started with its token.
Java_ffi_FFI_sessionReconnect(session_id) ==
    /\ LET id == parse_str(session_id)
           arc == IF id = None THEN NoArc ELSE session_lookup(sessions, id)
       IN  /\ IF arc # NoArc
              THEN /\ connection_round_state[arc] < MaxRounds
                   /\ connection_round_state' =
                          [connection_round_state EXCEPT ![arc] = new_round(@)]
                   /\ io_loops' = Append(io_loops,
                                         [arc |-> arc,
                                          round |-> connection_round_state'[arc],
                                          live |-> TRUE])
              ELSE UNCHANGED <<connection_round_state, io_loops>>
           /\ h_ctl' = [NoCtl EXCEPT !.fn = "sessionReconnect", !.id = id,
                           !.found = (id # None /\ sessions[id] # NoArc)]
    /\ UNCHANGED <<inputs, h_act>>
    /\ UNCHANGED <<sessions, arc_count, session_handlers, spawned, closing,
                   starting, pcS, sId, sArc, sCb, sRet,
                   h_ev, h_superseded, h_closed, h_after>>
    /\ UNCHANGED <<frameVars, clipVars, jniVars, chanVars, regVars>>

\* One iteration of the i-th io loop: it acts on its session if its token
\* is the session's round, and ends otherwise.
IoLoopStep(i) ==
    /\ i \in DOMAIN io_loops
    /\ io_loops[i].live
    /\ IF is_current(connection_round_state[io_loops[i].arc], io_loops[i].round)
       THEN /\ h_act' = [arc |-> io_loops[i].arc, token |-> io_loops[i].round,
                         round |-> connection_round_state[io_loops[i].arc]]
            /\ UNCHANGED io_loops
       ELSE /\ io_loops' = [io_loops EXCEPT ![i].live = FALSE]
            /\ UNCHANGED h_act
    /\ UNCHANGED <<inputs, h_ctl>>
    /\ UNCHANGED <<sessions, arc_count, session_handlers, connection_round_state,
                   spawned, closing, starting, pcS, sId, sArc, sCb, sRet,
                   h_ev, h_superseded, h_closed, h_after>>
    /\ UNCHANGED <<frameVars, clipVars, jniVars, chanVars, regVars>>

\* Java_ffi_FFI_sessionInputKey / Java_ffi_FFI_sessionRefresh: the call is
\* passed to the session if there is one.
SessionControl(fn, session_id) ==
    /\ LET id == parse_str(session_id)
           arc == IF id = None THEN NoArc ELSE session_lookup(sessions, id)
       IN  /\ inputs' = IF arc # NoArc
                        THEN [inputs EXCEPT ![arc] = @ \cup {fn}]
                        ELSE inputs
           /\ h_ctl' = [NoCtl EXCEPT !.fn = fn, !.id = id,
                           !.found = (id # None /\ sessions[id] # NoArc)]
    /\ UNCHANGED h_act
    /\ UNCHANGED <<sessions, arc_count, session_handlers, connection_round_state,
                   spawned, io_loops, closing, starting, pcS, sId, sArc, sCb, sRet,
                   h_ev, h_superseded, h_closed, h_after>>
    /\ UNCHANGED <<frameVars, clipVars, jniVars, chanVars, regVars>>

\* Java_ffi_FFI_sessionGetOption / sessionGetToggleOption /
\* sessionGetIsRecording: value and flag are what the session answers.
SessionGet(fn, session_id, value, flag) ==
    /\ LET id == parse_str(session_id)
           arc == IF id = None THEN NoArc ELSE session_lookup(sessions, id)
       IN  h_ctl' = [NoCtl EXCEPT !.fn = fn, !.id = id,
                        !.found = (id # None /\ sessions[id] # NoArc),
                        !.str = IF arc # NoArc /\ fn \in StringGetFns
                                THEN value ELSE "",
                        !.int = IF arc # NoArc /\ fn \in BoolGetFns /\ flag
                                THEN 1 ELSE 0]
    /\ UNCHANGED <<inputs, h_act>>
    /\ UNCHANGED <<sessions, arc_count, session_handlers, connection_round_state,
                   spawned, io_loops, closing, starting, pcS, sId, sArc, sCb, sRet,
                   h_ev, h_superseded, h_closed, h_after>>
    /\ UNCHANGED <<frameVars, clipVars, jniVars, chanVars, regVars>>

NextReg ==
    \/ \E session_id \in SessionIdStrings, peer \in Peers :
           Java_ffi_FFI_sessionAdd(session_id, peer)
    \/ \E fn \in Queries, session_id \in SessionIdStrings, value \in QueryValues :
           SessionQuery(fn, session_id, value)
    \/ \E session_id \in SessionIdStrings, peer \in Peers :
           Java_ffi_FFI_sessionAddSync(session_id, peer)
    \/ \E session_id \in SessionIdStrings : CloseRemove(session_id)
    \/ CloseStream

\* The io threads of the sessions.
NextIo == \E arc \in Arcs : IoLoopStart(arc)

\* The rounds of the sessions: starts, reconnects and io loops.
NextRound ==
    \/ \E session_id \in SinkIdStrings, peer \in Peers :
           Java_ffi_FFI_sessionAddSync(session_id, peer)
    \/ \E session_id \in SinkIdStrings, callback \in Callbacks :
           StartInstall(session_id, callback, TRUE, "ok")
    \/ StartSpawn
    \/ NextIo
    \/ \E session_id \in SinkIdStrings : Java_ffi_FFI_sessionReconnect(session_id)
    \/ \E i \in LoopIds : IoLoopStep(i)

\* Starting a session: sinks registered and sessions closed around it.
NextStart ==
    \/ \E session_id \in SinkIdStrings, peer \in Peers :
           Java_ffi_FFI_sessionAddSync(session_id, peer)
    \/ \E session_id \in SinkIdStrings, callback \in Callbacks, jni_ok \in BOOLEAN :
           register_session_event_callback(session_id, callback, jni_ok)
    \/ \E session_id \in SinkIdStrings, callback \in Callbacks, jni_ok \in BOOLEAN :
           StartInstall(session_id, callback, jni_ok, "ok")
    \/ StartSpawn
    \/ NextIo
    \/ \E session_id \in SinkIdStrings : CloseRemove(session_id)
    \/ CloseStream
    \/ NextJni

\* The control and query calls on the sessions.
NextCtl ==
    \/ \E session_id \in SinkIdStrings, peer \in Peers :
           Java_ffi_FFI_sessionAddSync(session_id, peer)
    \/ \E session_id \in SessionIdStrings : CloseRemove(session_id)
    \/ CloseStream
    \/ \E session_id \in SessionIdStrings : Java_ffi_FFI_sessionReconnect(session_id)
    \/ \E fn \in ControlFns, session_id \in SessionIdStrings :
           SessionControl(fn, session_id)
    \/ \E fn \in GetFns, session_id \in SessionIdStrings,
          value \in QueryValues, flag \in BOOLEAN :
           SessionGet(fn, session_id, value, flag)

NextSess ==
    \/ \E session_id \in SinkIdStrings, peer \in Peers :
           Java_ffi_FFI_sessionAddSync(session_id, peer)
    \/ \E session_id \in SinkIdStrings : CloseRemove(session_id)
    \/ CloseStream
    \/ \E session_id \in SinkIdStrings, callback \in Callbacks, jni_ok \in BOOLEAN :
           register_session_event_callback(session_id, callback, jni_ok)
    \/ \E session_id \in SinkIdStrings, callback \in Callbacks,
          jni_ok \in BOOLEAN, jni \in JniOutcomes :
           StartInstall(session_id, callback, jni_ok, jni)
    \/ StartSpawn
    \/ \E t \in Senders, id \in SinkIds : SendLookup(t, id)
    \/ \E t \in Senders : SendLock(t)
    \/ \E t \in Senders, event \in EventsToUI, jni \in JniOutcomes :
           SendInvoke(t, event, jni)
    \/ \E t \in Senders : SendReturn(t)
    \/ NextJni

----------------------------------------------------------------------------
(* The whole bridge *)

Init == FrameInit /\ ClipInit /\ JniInit /\ ChanInit /\ RegInit /\ SessInit

NextFrame ==
    \/ \E name \in FrameNames, value \in BOOLEAN :
          Java_ffi_FFI_setFrameRawEnable(name, value)
    \/ \E k \in Kinds, data \in Buffers : UpdateEnter(k, data)
    \/ \E k \in Kinds : UpdateStorePtr(k)
    \/ \E k \in Kinds : UpdateStamp(k)
    \/ \E k \in Kinds : UpdateReturn(k)
    \/ \E k \in Kinds, last \in LastBufs : TakeEnter(k, last)
    \/ \E k \in Kinds : TakeCopy(k)
    \/ \E k \in Kinds : TakeReturn(k)
    \/ Tick

SpecFrame == Init /\ [][NextFrame]_vars

SpecClip == Init /\ [][NextClip]_vars

SpecChan == Init /\ [][NextChan]_vars

SpecList == Init /\ [][NextList]_vars

SpecInit == Init /\ [][NextInit]_vars

SpecCm == Init /\ [][NextCm]_vars

SpecReg == Init /\ [][NextReg]_vars

SpecSess == Init /\ [][NextSess]_vars

SpecRound == Init /\ [][NextRound]_vars

SpecCtl == Init /\ [][NextCtl]_vars

SpecStart == Init /\ [][NextStart]_vars

\* The components share no state but the JNI environment, so each is
\* checked under its own specification.
Next ==
    \/ NextFrame \/ NextClip \/ NextChan \/ NextList \/ NextReg \/ NextSess
    \/ NextRound \/ NextCtl \/ NextInit \/ NextCm \/ NextStart

Spec == Init /\ [][Next]_vars

----------------------------------------------------------------------------
(* Properties of the frame slots, checked under SpecFrame.  A take is      *)
(* judged in the states where it has reached a return (pcT[k] \in Ret) and *)
(* still holds the slot.                                                   *)

\* The running take of kind k is the first take after a completed update of
\* an enabled kind and started within the timeout of that update.
FirstFreshTake(k) ==
    /\ pcT[k] \in Ret
    /\ h_on[k]
    /\ h_hist[k] = "upd"
    /\ ~h_stale[k]

ReturnsNone(k) == pcT[k] \in RetNone /\ dst[k] = h_dst0[k]

\* C1 as stated: for an enabled kind, the first take after an update, issued
\* within the staleness timeout, reports presence and dst holds the bytes of
\* the most recent update, whatever previous_buffer was passed.
C1_Original ==
    \A k \in Kinds :
        FirstFreshTake(k) =>
            pcT[k] = "ret_some" /\ dst[k] = BufBytes(h_data[k])

\* C1 amended: that take reports presence and dst holds exactly the bytes of
\* the most recent update, unless the update was empty or previous_buffer is
\* byte-identical to it; in those two cases it returns no data and leaves dst
\* as it was.
C1_Amended ==
    \A k \in Kinds :
        FirstFreshTake(k) =>
            IF BufBytes(h_data[k]) = <<>> \/ h_eq[k]
            THEN ReturnsNone(k)
            ELSE pcT[k] = "ret_some" /\ dst[k] = BufBytes(h_data[k])

\* C1 witness: a fresh take delivered <<4, 5>> over a dst that held <<1, 2, 3>>.
C1_Witness ==
    \E k \in Kinds :
        /\ FirstFreshTake(k)
        /\ pcT[k] = "ret_some"
        /\ dst[k] = <<4, 5>>
        /\ h_dst0[k] = <<1, 2, 3>>

\* C2: a take issued more than the timeout after the last update returns no
\* data and leaves dst untouched, and so does every later take until a new
\* update arrives.
C2_StaleTakeReturnsNone ==
    \A k \in Kinds :
        (pcT[k] \in Ret /\ h_stale[k]) => ReturnsNone(k)

\* C2 witness: a second stale take in a row finds the unconsumed bytes still
\* in the slot and returns on the timeout path.
C2_Witness ==
    \E k \in Kinds :
        /\ pcT[k] = "ret_timeout"
        /\ h_stale[k]
        /\ h_hist[k] = "seen"
        /\ ptr[k] # NullPtr
        /\ len[k] > 0
        /\ h_dst0[k] # <<>>

\* C3: while the kind was last set disabled every take returns no data and
\* an update leaves the slot empty; after any set_enabled call a take returns
\* no data until an update has completed since that call.
C3_DisabledDeliversNothing ==
    \A k \in Kinds :
        /\ (pcT[k] \in Ret /\ (~h_on[k] \/ h_data[k] = NullPtr)) => ReturnsNone(k)
        /\ (pcU[k] = "ret" /\ ~h_on[k]) =>
               (ptr[k] = NullPtr /\ len[k] = 0)

\* C3 witness: re-enabled after frames were delivered, no update since: the
\* take finds the slot empty.
C3_Witness ==
    \E k \in Kinds :
        /\ pcT[k] = "ret_empty"
        /\ h_on[k]
        /\ h_data[k] = NullPtr
        /\ h_dst0[k] # <<>>
        /\ elapsed[k] = 0

\* C4: in every reachable state a disabled slot is empty.
C4_DisabledIsEmpty ==
    \A k \in Kinds :
        ~enable[k] => (ptr[k] = NullPtr /\ len[k] = 0)

\* C4 witness: an update has run against a slot disabled after it delivered
\* frames.
C4_Witness ==
    \E k \in Kinds :
        /\ ~enable[k]
        /\ pcU[k] = "ret"
        /\ dst[k] # <<>>

\* C5: after a take reported presence, every further take with no update in
\* between returns no data.
C5_TakeOnce ==
    \A k \in Kinds :
        (pcT[k] \in Ret /\ h_hist[k] = "took") => ReturnsNone(k)

\* C5 witness: a take after a successful take finds the slot cleared.
C5_Witness ==
    \E k \in Kinds :
        /\ pcT[k] = "ret_empty"
        /\ h_on[k]
        /\ h_hist[k] = "took"
        /\ ptr[k] = NullPtr
        /\ len[k] = 0

\* C6: the (pointer, length) pair a take reads is the pair of one completed
\* update, the most recently completed one: outside an update the slot is
\* empty or holds that update's pointer with that update's length, and the
\* bytes a take is copying or has copied are that update's bytes.
C6_NoTornRead ==
    \A k \in Kinds :
        /\ lock[k] # "producer" =>
              \/ ptr[k] = NullPtr /\ len[k] = 0
              \/ ptr[k] = h_data[k] /\ ptr[k] # NullPtr /\ len[k] = Capacity(h_data[k])
        /\ pcT[k] = "copy" =>
              h_data[k] # NullPtr /\ slice[k] = BufBytes(h_data[k])
        /\ pcT[k] = "ret_some" =>
              h_data[k] # NullPtr /\ dst[k] = BufBytes(h_data[k])

\* C6 witness: a take is copying <<4, 5>> into a dst that still holds the
\* <<1, 2, 3>> of an earlier take.
C6_Witness ==
    \E k \in Kinds :
        /\ pcT[k] = "copy"
        /\ slice[k] = <<4, 5>>
        /\ dst[k] = <<1, 2, 3>>

----------------------------------------------------------------------------
(* Properties of the clipboard mailboxes, checked under SpecClip. *)

\* What a take of direction c must return, by the history of publishes.
Expected(c) ==
    IF h_exp[c] = 0 THEN <<>>
    ELSE <<Payload(h_pub[h_exp[c]].clips, h_exp[c])>>

\* C8: a take returns the payload of the last publish to its direction since
\* the previous take, and None when there was none: superseded payloads are
\* never returned and the take after a successful take returns None.
C8_LastWriteWins ==
    \A c \in BOOLEAN : ret_clip[c] = Expected(c)

\* C8 witness: two different payloads were published to one direction, then a
\* take returned the second.
C8_Witness ==
    \E c \in BOOLEAN :
        /\ Len(h_pub) >= 2
        /\ h_pub[1].client = c
        /\ h_pub[2].client = c
        /\ h_pub[1].clips # h_pub[2].clips
        /\ h_got = <<[client |-> c, id |-> 2, clips |-> h_pub[2].clips]>>
        /\ ret_clip[c] # <<>>

\* C9: each published payload is returned by at most one take, and a take
\* returns only a payload that was published to its direction.
C9_ExactlyOnce ==
    /\ \A i, j \in 1..Len(h_got) : h_got[i].id = h_got[j].id => i = j
    /\ \A i \in 1..Len(h_got) :
          /\ h_got[i].id \in 1..Len(h_pub)
          /\ h_pub[h_got[i].id].client = h_got[i].client
          /\ h_pub[h_got[i].id].clips = h_got[i].clips

\* C9 witness: takes of both directions have returned payloads and a third
\* payload is still pending.
C9_Witness ==
    /\ Len(h_got) = 2
    /\ h_got[1].client # h_got[2].client
    /\ Len(h_pub) = 3
    /\ h_op.op = "take"
    /\ ret_clip[h_op.client] = <<>>

\* C10: a publish or a take on one direction leaves the other direction's
\* mailbox as it was.
C10_Independent ==
    [][ /\ h_op'.client => CLIPBOARDS_HOST' = CLIPBOARDS_HOST
        /\ ~h_op'.client => CLIPBOARDS_CLIENT' = CLIPBOARDS_CLIENT
      ]_vars

\* C10 witness: a publish to the client direction happened while the host
\* mailbox held a payload.
C10_Witness ==
    /\ h_op = [op |-> "publish", client |-> TRUE]
    /\ CLIPBOARDS_HOST # <<>>
    /\ CLIPBOARDS_CLIENT # <<>>


----------------------------------------------------------------------------
(* Properties of the session map of ffi.rs, checked under SpecReg. *)

\* C11: a sessionAdd of an id that SESSIONS already holds reports an error
\* to its caller, and SESSIONS still maps the id to the session added first.
C11_DuplicateRejected ==
    (h_call.fn = "sessionAdd" /\ h_call.dup) =>
        /\ h_call.ret # ""
        /\ SESSIONS[parse_str(h_call.id)] = h_call.prev

\* C12: a query (sessionGetPlatform, sessionGetImageQuality) on an id that
\* was added by sessionAdd and then closed by sessionClose finds no session.
C12_ClosedIsAbsent ==
    (h_call.fn \in Queries /\ h_call.closed) => ~h_call.found

----------------------------------------------------------------------------
(* Properties of the global event channels, checked under SpecChan. *)

\* C13: a register on a name that already has a sink delivers a close
\* notification to that sink before the new sink is the active one.
C13_CloseBeforeReplace ==
    (h_reg.op = "register" /\ h_reg.ret = 1 /\ h_reg.old # None) => h_reg.closed

\* C14: once a sink has replaced another on a name without a comma, a push
\* to that name invokes no callback but the replacing sink.
C14_OnlySecondSink ==
    [][\A t \in Pushers :
          (/\ pcP[t] = "locked"
           /\ pcP'[t] = "ret"
           /\ pName[t] \in PlainNames
           /\ h_second[pName[t]] # None) =>
              \A c \in Callbacks :
                  onEvent'[c] # onEvent[c] => c = h_second[pName[t]]]_vars

\* C14 witness: a push to a name has invoked the sink that replaced another
\* one on that name.
C14_Witness ==
    \E t \in Pushers :
        /\ pcP[t] = "ret"
        /\ pRet[t] = "Some(true)"
        /\ pName[t] \in PlainNames
        /\ h_second[pName[t]] = pCb[t]
        /\ h_reg.op = "register"
        /\ h_reg.name = pName[t]
        /\ h_reg.old \notin {None, pCb[t]}

----------------------------------------------------------------------------
(* Properties of the session event sinks, checked under SpecSess. *)

\* C15: a start_session or a register_session_event_callback that replaces
\* an installed sink delivers a closing event to the replaced sink.
C15_ClosingBeforeReplace ==
    (h_ev.op \in {"start", "register"} /\ h_ev.old # None) => h_ev.closed

\* C16: the callback a send_event_to_ui invokes is the one installed in the
\* session at that moment, and never one that was replaced in that session.
C16_OneActiveSink ==
    \A t \in Senders :
        (pcS[t] \in {"locked", "ret"} /\ sCb[t] # None) =>
            /\ session_handlers[sArc[t]].event_callback = sCb[t]
            /\ sCb[t] \notin h_superseded[sArc[t]]

\* C16 witness: after a sink was replaced, a send has invoked the new sink.
C16_Witness ==
    \E t \in Senders :
        /\ pcS[t] = "ret"
        /\ sRet[t]
        /\ h_superseded[sArc[t]] # {}
        /\ onEvent[sCb[t]] # <<>>

----------------------------------------------------------------------------
(* More properties of the global event channels, checked under SpecChan. *)

\* C18 amended: a push to a name without a sink returns None, invokes
\* nothing and leaves the registry as it is; a push to a name with a sink
\* returns Some(_) with at most one onEvent call, on that sink only: exactly
\* one when it returns Some(true), none when no JavaVM is stored.
C18_Amended ==
    [][\A t \in Pushers :
          /\ pcP'[t] # pcP[t] => GLOBAL_EVENT_CALLBACKS' = GLOBAL_EVENT_CALLBACKS
          /\ (pcP[t] # "ret" /\ pcP'[t] = "ret") =>
                LET sink == GLOBAL_EVENT_CALLBACKS[pName'[t]]
                IN  IF sink = None
                    THEN pRet'[t] = "None" /\ onEvent' = onEvent
                    ELSE /\ pRet'[t] \in {"Some(true)", "Some(false)"}
                         /\ \A c \in Callbacks \ {sink} : onEvent'[c] = onEvent[c]
                         /\ \/ onEvent'[sink] = onEvent[sink]
                            \/ onEvent'[sink] = Append(onEvent[sink], "event")
                         /\ pRet'[t] = "Some(true)" =>
                                onEvent'[sink] = Append(onEvent[sink], "event")
                         /\ JVM = None =>
                                pRet'[t] = "Some(false)" /\ onEvent' = onEvent]_vars

\* C18 as stated: a push to a name with a sink invokes that sink exactly
\* once before it returns.
C18_Original ==
    [][\A t \in Pushers :
          (pcP[t] # "ret" /\ pcP'[t] = "ret") =>
                LET sink == GLOBAL_EVENT_CALLBACKS[pName'[t]]
                IN  IF sink = None
                    THEN pRet'[t] = "None" /\ onEvent' = onEvent
                    ELSE onEvent'[sink] = Append(onEvent[sink], "event")]_vars

\* C18 witness: a push to a name with a sink has invoked it and returned
\* Some(true).
C18_Witness ==
    \E t \in Pushers :
        /\ pcP[t] = "ret"
        /\ pCb[t] # None
        /\ pRet[t] = "Some(true)"
        /\ onEvent[pCb[t]] # <<>>

\* C19: an unregister of a name that has a sink delivers a close
\* notification to that sink.
C19_UnregisterCloses ==
    (h_reg.op = "unregister" /\ h_reg.ret = 1 /\ h_reg.old # None) => h_reg.closed

\* C20: an unregister(name) reports success and leaves name without a sink
\* and out of the channel list, every other name with the sink it had, and
\* the registry as it was when name had no sink.
C20_UnregisterFrame ==
    [][(h_reg'.op = "unregister" /\ h_reg'.args /\ h_reg' # h_reg) =>
          /\ h_reg'.ret = 1
          /\ GLOBAL_EVENT_CALLBACKS'[h_reg'.name] = None
          /\ get(GLOBAL_EVENT_CALLBACKS', h_reg'.name) = None
          /\ h_reg'.name \notin get_global_event_channels(GLOBAL_EVENT_CALLBACKS')
          /\ \A a \in ChannelNames \ {h_reg'.name} :
                 GLOBAL_EVENT_CALLBACKS'[a] = GLOBAL_EVENT_CALLBACKS[a]
          /\ h_reg'.old = None =>
                 GLOBAL_EVENT_CALLBACKS' = GLOBAL_EVENT_CALLBACKS]_vars

\* C20 witness: an unregister has removed the sink of a name while another
\* name has a sink.
C20_Witness ==
    /\ h_reg.op = "unregister"
    /\ h_reg.ret = 1
    /\ h_reg.old # None
    /\ GLOBAL_EVENT_CALLBACKS[h_reg.name] = None
    /\ \E a \in ChannelNames \ {h_reg.name} : GLOBAL_EVENT_CALLBACKS[a] # None

----------------------------------------------------------------------------
(* Locking of the sink invocations, checked under SpecChan. *)

\* C21: while a push is invoking the sink it looked up, the registry lock is
\* free: a register or an unregister on another thread can complete.
C21_SinkOutsideLock ==
    \A t \in Pushers :
        pcP[t] = "locked" =>
            /\ CanWrite
            /\ ENABLED unregister_global_event_callback(pName[t], TRUE)

----------------------------------------------------------------------------
(* Properties of the rounds, checked under SpecRound. *)

\* C22: an io loop acts only while its token is the round of its session,
\* and at no time do two loops of one session hold the session's round.
C22_StaleLoopStops ==
    /\ h_act # NoAct => h_act.token = h_act.round
    /\ \A i, j \in DOMAIN io_loops :
           (/\ i # j
            /\ io_loops[i].arc = io_loops[j].arc
            /\ io_loops[i].round = connection_round_state[io_loops[i].arc]) =>
               io_loops[j].round # connection_round_state[io_loops[j].arc]

\* C22 witness: a loop found itself superseded and ended, and the loop with
\* the newer token has acted.
C22_Witness ==
    \E i \in DOMAIN io_loops :
        /\ ~io_loops[i].live
        /\ h_act.arc = io_loops[i].arc
        /\ h_act.token > io_loops[i].round

\* C23: the tokens issued for one session strictly increase in the order of
\* issue, each is a round the session has reached, and no two loops of a
\* session hold the same token.
C23_RoundStrictlyIncreasing ==
    \A i, j \in DOMAIN io_loops :
        (i < j /\ io_loops[i].arc = io_loops[j].arc) =>
            /\ io_loops[i].round < io_loops[j].round
            /\ io_loops[j].round <= connection_round_state[io_loops[j].arc]

\* C23 witness: a start and a reconnect of one session have raced: the
\* spawned thread and the reconnect hold the tokens 1 and 2.
C23_Witness ==
    /\ Len(io_loops) = 2
    /\ io_loops[1].arc = io_loops[2].arc
    /\ io_loops[1].round = 1
    /\ io_loops[2].round = 2
    /\ h_ctl.fn = "sessionReconnect"
    /\ spawned[io_loops[1].arc] = 0

----------------------------------------------------------------------------
(* Properties of the control and query calls, checked under SpecCtl. *)

\* C24: a control or query call whose id is not in the session map changes
\* no state of the bridge and returns "" or 0, and so does a sessionClose of
\* an id that is not in the map.
C24_MissingSessionIsNoOp ==
    [][/\ (h_ctl' # h_ctl /\ ~h_ctl'.found) =>
             /\ h_ctl'.str = ""
             /\ h_ctl'.int = 0
             /\ UNCHANGED <<sessions, arc_count, session_handlers, inputs,
                            connection_round_state, spawned, io_loops, closing,
                            SESSIONS, GLOBAL_EVENT_CALLBACKS, onEvent, panicked>>
       /\ \A s \in SessionIds :
             (CloseRemove(s) /\ sessions[s] = NoArc) =>
                 UNCHANGED <<sessions, arc_count, session_handlers, inputs,
                             connection_round_state, spawned, io_loops, closing,
                             SESSIONS, GLOBAL_EVENT_CALLBACKS, onEvent, panicked>>]_vars

\* C24 witness: a control call on an id that is not in the map has returned
\* while another session exists, and that session has received nothing.
C24_Witness ==
    /\ h_ctl.fn \in ControlFns
    /\ ~h_ctl.found
    /\ h_ctl.id = "s2"
    /\ sessions["s1"] # NoArc
    /\ inputs[sessions["s1"]] = {}

----------------------------------------------------------------------------
(* Failing sinks and comma names, checked under SpecChan. *)

----------------------------------------------------------------------------
(* The channel list, checked under SpecList. *)

\* C26: get_global_event_channels returns exactly the names that have a
\* sink when it is called, which are the names a push would find a sink
\* for, and a list it has returned is not changed by a later register or
\* unregister.
C26_ListIsSnapshot ==
    [][/\ ListChannels =>
             /\ ret_channels' = {a \in ChannelNames : GLOBAL_EVENT_CALLBACKS[a] # None}
             /\ \A a \in ChannelNames :
                    a \in ret_channels' <=> get(GLOBAL_EVENT_CALLBACKS, a) # None
       /\ GLOBAL_EVENT_CALLBACKS' # GLOBAL_EVENT_CALLBACKS =>
             ret_channels' = ret_channels
       /\ h_reg' # h_reg => ret_channels' = ret_channels]_vars

\* C26 witness: a list returned earlier still names a channel that has been
\* unregistered since, and lacks one registered since.
C26_Witness ==
    /\ h_reg.op = "unregister"
    /\ h_reg.name \in ret_channels
    /\ GLOBAL_EVENT_CALLBACKS[h_reg.name] = None
    /\ \E a \in ChannelNames \ ret_channels : GLOBAL_EVENT_CALLBACKS[a] # None

\* C27: after a register of any name has returned success, that name has a
\* sink for a push to find and is in the channel list.
C27_RegisteredNameReachable ==
    (h_reg.op = "register" /\ h_reg.ret = 1) =>
        /\ get(GLOBAL_EVENT_CALLBACKS, h_reg.name) # None
        /\ h_reg.name \in get_global_event_channels(GLOBAL_EVENT_CALLBACKS)

----------------------------------------------------------------------------
(* Further properties of the frame slots, checked under SpecFrame. *)

C29_RedundantEnableKeepsFrame ==
    [][\A k \in Kinds :
          (enable[k] /\ setFrameRawEnable(k, TRUE)) =>
              (ptr'[k] = ptr[k] /\ len'[k] = len[k])]_vars

\* The fields of slot k that a call may change
Slot(k) == <<enable[k], ptr[k], len[k], elapsed[k]>>

\* A step of one of the operations on kind k
StepOn(k) ==
    \/ \E value \in BOOLEAN : setFrameRawEnable(k, value)
    \/ \E data \in Buffers : UpdateEnter(k, data)
    \/ UpdateStorePtr(k)
    \/ UpdateStamp(k)
    \/ UpdateReturn(k)
    \/ \E last \in LastBufs : TakeEnter(k, last)
    \/ TakeCopy(k)
    \/ TakeReturn(k)

\* C30: set_enabled, update and take on one kind leave the other kind's
\* enabled flag, pointer, length and last-update stamp unchanged, and
\* setFrameRawEnable with a name that is not a kind's changes neither slot;
\* with a kind's name it changes no slot but that kind's.
C30_SlotsIndependent ==
    [][/\ \A k \in Kinds : \A j \in Kinds \ {k} :
              Slot(j)' = Slot(j) \/ ~StepOn(k)
       /\ \A name \in FrameNames : \A j \in Kinds \ {name} :
              \/ Slot(j)' = Slot(j)
              \/ ~\E value \in BOOLEAN : Java_ffi_FFI_setFrameRawEnable(name, value)]_vars

\* C30 witness: while the video slot holds a frame of an update, the audio
\* slot has been enabled, filled and emptied by a take of its own.
C30_Witness ==
    /\ enable["video"]
    /\ ptr["video"] # NullPtr
    /\ len["video"] > 0
    /\ pcT["audio"] = "ret_some"
    /\ enable["audio"]
    /\ ptr["audio"] = NullPtr
    /\ dst["audio"] # <<>>
    /\ elapsed["video"] # elapsed["audio"]

----------------------------------------------------------------------------
(* Further properties of the clipboard mailboxes, checked under SpecClip. *)

\* C31: an onClipboardUpdate with a buffer that has a first byte stores the
\* parsed payload in the client mailbox if that byte is 1 and in the host
\* mailbox otherwise, leaving the other mailbox as it was; if the bytes after
\* the first do not parse, both mailboxes keep what they held.
C31_RoutedByFirstByte ==
    (h_upd.called /\ Len(h_upd.data) > 0) =>
        LET r == parse_from_bytes(Tail(h_upd.data))
        IN  /\ ~panicked
            /\ ~r.ok =>
                   /\ CLIPBOARDS_HOST = h_upd.host
                   /\ CLIPBOARDS_CLIENT = h_upd.client
            /\ (r.ok /\ h_upd.data[1] = 1) =>
                   /\ CLIPBOARDS_CLIENT # <<>>
                   /\ CLIPBOARDS_CLIENT[1].clips = r.clips
                   /\ CLIPBOARDS_HOST = h_upd.host
            /\ (r.ok /\ h_upd.data[1] # 1) =>
                   /\ CLIPBOARDS_HOST # <<>>
                   /\ CLIPBOARDS_HOST[1].clips = r.clips
                   /\ CLIPBOARDS_CLIENT = h_upd.client

\* C31 witness: a malformed update for the client direction arrived while a
\* payload was pending there, after a payload with first byte 2 had gone to
\* the host mailbox.
C31_Witness ==
    /\ h_upd.called
    /\ h_upd.data = <<1, 11>>
    /\ h_upd.client # <<>>
    /\ CLIPBOARDS_CLIENT = h_upd.client
    /\ CLIPBOARDS_HOST # <<>>
    /\ CLIPBOARDS_HOST[1].clips = <<<<8>>>>

\* C32: an onClipboardUpdate with a zero-length buffer returns normally and
\* leaves both mailboxes as they were.
C32_EmptyBufferIgnored ==
    (h_upd.called /\ Len(h_upd.data) = 0) =>
        /\ ~panicked
        /\ CLIPBOARDS_HOST = h_upd.host
        /\ CLIPBOARDS_CLIENT = h_upd.client

----------------------------------------------------------------------------
(* Properties of the stored JavaVM, the main-service context and the NDK   *)
(* context, checked under SpecInit.                                        *)

\* C36: the stored JavaVM handle is the one the first Java_ffi_FFI_init or
\* Java_ffi_FFI_setClipboardManager call obtained and no later call of
\* either replaces it, while the main-service context is the one stored by
\* the latest Java_ffi_FFI_init that got that far.
C36_JvmWriteOnce ==
    [][/\ JVM' = h_jvm'.first
       /\ JVM # None => JVM' = JVM
       /\ MAIN_SERVICE_CTX' = h_ctx'
       /\ \A t \in InitThreads : pcI[t] = "store_ctx" /\ pcI'[t] # "store_ctx" =>
              MAIN_SERVICE_CTX' = iCtx[t]]_vars

\* C36 witness: the latest call obtained another handle than the stored
\* one, and the context is that of a second init while the first init has
\* not yet reached init_ndk_context.
C36_Witness ==
    /\ JVM # None
    /\ JVM = h_jvm.first
    /\ h_jvm.last # h_jvm.first
    /\ CLIPBOARD_MANAGER # None
    /\ MAIN_SERVICE_CTX = "ctx2"
    /\ \E t \in InitThreads : pcI[t] = "ndk_enter" /\ iCtx[t] = "ctx1"

\* C37: the android context is never initialized while one is held and
\* never released while none is held, a release happens between any two
\* initializations, and once an init_ndk_context call has completed the
\* flag is set whenever no call is inside init_ndk_context.
C37_NdkContextConsistent ==
    /\ ndk_context \in {"none", "initialized"}
    /\ NDK_CONTEXT_INITED <=> (ndk_context = "initialized")
    /\ (h_inits > 0 /\ \A t \in InitThreads : pcI[t] # "ndk_init") =>
           NDK_CONTEXT_INITED
    /\ (\E t \in InitThreads : pcI[t] = "ndk_init") => ndk_context = "none"

\* C37 witness: a call from JNI_OnLoad and one from Java_ffi_FFI_init have
\* completed, and a third call waits for the mutex while another is between
\* its release and its initialize.
C37_Witness ==
    /\ h_inits = 2
    /\ loaded
    /\ h_ctx # None
    /\ \E t, u \in InitThreads :
          /\ pcI[t] = "ndk_init"
          /\ pcI[u] = "ndk_enter"
          /\ ndk_lock = t
          /\ ~NDK_CONTEXT_INITED

----------------------------------------------------------------------------
(* The connection manager's events, checked under SpecCm. *)

----------------------------------------------------------------------------
(* Starting a session, checked under SpecStart.  Only a start_session     *)
(* starts an io loop there: a session left without a loop and without a   *)
(* spawned thread when start_session returns never gets one.              *)

\* C33: when a start_session returns success, its session has an io loop
\* or a thread spawned that will begin one with a new round, whatever
\* register_session_event_callback and start_session calls came before; and
\* a start_session that replaced an installed sink spawns no io loop and
\* issues no round.
C33_StartedSessionRuns ==
    [][/\ (StartSpawn /\ get_session_by_session_id(sessions, starting.id) # NoArc) =>
              LET a == get_session_by_session_id(sessions, starting.id)
              IN  \/ spawned'[a] > 0
                  \/ \E i \in DOMAIN io_loops' : io_loops'[i].arc = a
       /\ (StartSpawn /\ starting.is_connected) =>
              /\ spawned' = spawned
              /\ io_loops' = io_loops
              /\ connection_round_state' = connection_round_state]_vars

\* C34: a start_session that returns an error has changed nothing: one that
\* fails in the scan leaves handlers, sinks and spawned threads as they
\* were, and one that has installed its callback does not go on to return
\* an error, also when the session is closed in between.
C34_FailedStartChangesNothing ==
    [][/\ (/\ \E session_id \in SinkIdStrings, callback \in Callbacks,
                 jni_ok \in BOOLEAN : StartInstall(session_id, callback, jni_ok, "ok")
           /\ starting'.pc = "idle") =>
              UNCHANGED <<session_handlers, onEvent, spawned, io_loops>>
       /\ (starting.pc = "installed" /\ StartSpawn) =>
              get_session_by_session_id(sessions, starting.id) # NoArc]_vars

====
